---- MODULE Spec2Model ----
(***************************************************************************)
(* Image Text Composer: the document / history engine of                   *)
(* src/src/app/page.tsx (component Home), the canvas interaction handlers  *)
(* of src/src/components/Canvas.tsx, the layers panel and the helpers of   *)
(* src/src/lib/utils.ts.                                                   *)
(*                                                                         *)
(* One action is one input event.  React applies the state updates an      *)
(* event queues in order, each updater function receiving the state left   *)
(* by the one before it, and renders once after the event; a handler reads *)
(* the props and state of the last render (its closure).  The operators    *)
(* below therefore take the pending state `st` and, where the code reads   *)
(* a closure value, that value as a separate argument.                     *)
(***************************************************************************)
EXTENDS Integers, Sequences, FiniteSets, TLC

(***************************************************************************)
(* Program constants                                                       *)
(***************************************************************************)
MAX_HISTORY_STEPS == 20
NullId == 0
DuplicateOffset == 20
GridSize == 20
SnapThreshold == 50
RotateStep == 15
RotateStepShift == 45
FullTurn == 360
DefaultFontSize == 24
DefaultWidth == 200
DefaultHeight == 50
AddOffsetX == 100
AddOffsetY == 25

(***************************************************************************)
(* Bounds of the model                                                     *)
(***************************************************************************)
NumIds == 2
MaxLayers == 2
MaxSteps == 5
MaxRecs == 23

Ids == 1..NumIds

Min(a, b) == IF a < b THEN a ELSE b
Max(a, b) == IF a > b THEN a ELSE b
Abs(a) == IF a < 0 THEN -a ELSE a

\* the % of JavaScript: the result has the sign of the dividend
Rem(a, b) == IF a >= 0 THEN a % b ELSE -((-a) % b)

\* Array.prototype.slice(0, n) for n >= 0
Slice(s, n) == SubSeq(s, 1, Min(n, Len(s)))

(***************************************************************************)
(* src/src/lib/utils.ts                                                    *)
(***************************************************************************)
DefaultText == "Double click to edit"

\* opacities are counted in tenths: Opaque is the opacity 1 of line 20
Opaque == 10

createDefaultTextLayer(id, x, y) ==
  [ id |-> id, text |-> DefaultText, x |-> x, y |-> y,
    width |-> DefaultWidth, height |-> DefaultHeight, rotation |-> 0,
    fontSize |-> DefaultFontSize, fontFamily |-> "Arial",
    fontWeight |-> "normal", color |-> "#000000", opacity |-> Opaque,
    textAlign |-> "left", zIndex |-> 0, isVisible |-> TRUE ]

RECURSIVE MaxZ(_)
MaxZ(layers) ==
  IF Len(layers) = 1 THEN layers[1].zIndex
  ELSE Max(layers[1].zIndex, MaxZ(Tail(layers)))

\* a next zIndex that is the greatest one in use, not the one above it
getTopZIndex(layers) ==
  IF Len(layers) = 0 THEN 0 ELSE MaxZ(layers)

getNextZIndex(layers) ==
  IF Len(layers) = 0 THEN 0 ELSE MaxZ(layers) + 1

\* insertion of one layer into a zIndex-sorted list, after its equals:
\* Array.prototype.sort is stable
RECURSIVE InsertByZ(_, _)
InsertByZ(sorted, layer) ==
  IF sorted = <<>> THEN <<layer>>
  ELSE IF Head(sorted).zIndex <= layer.zIndex
       THEN <<Head(sorted)>> \o InsertByZ(Tail(sorted), layer)
       ELSE <<layer>> \o sorted

RECURSIVE SortByZ(_)
SortByZ(layers) ==
  IF layers = <<>> THEN <<>>
  ELSE InsertByZ(SortByZ(SubSeq(layers, 1, Len(layers) - 1)), layers[Len(layers)])

\* result.map((layer, index) => ({...layer, zIndex: index}))
Reindex(layers) ==
  [k \in 1..Len(layers) |-> [layers[k] EXCEPT !.zIndex = k - 1]]

\* a normalization that renumbers the layers where they stand, without the sort
reindexOnly(layers) == Reindex(layers)

\* a normalization that sorts and leaves the zIndex values as they are
sortOnly(layers) == SortByZ(layers)

normalizeZIndexes(layers) == Reindex(SortByZ(layers))

\* the start of Array.prototype.splice(index, ...) in an array of length n:
\* a negative index counts from the end, and the start is clamped to 0..n
SpliceStart(index, n) ==
  IF index < 0 THEN Max(n + index, 0) ELSE Min(index, n)

\* fromIndex and toIndex are 0-based array indexes. splice(fromIndex, 1)
\* removes one element, or none when its start is the array's length, and
\* removed is then undefined; splice(toIndex, 0, removed) inserts removed
\* all the same; the map spreads each entry, undefined as no member at all,
\* and sets zIndex
reorderLayers(layers, fromIndex, toIndex) ==
  LET n     == Len(layers)
      start == SpliceStart(fromIndex, n)
      rest  == SubSeq(layers, 1, start) \o SubSeq(layers, start + 2, n)
      at    == SpliceStart(toIndex, Len(rest))
  IN [k \in 1..(Len(rest) + 1) |->
        IF k = at + 1
        THEN IF start < n THEN [layers[start + 1] EXCEPT !.zIndex = k - 1]
                          ELSE [zIndex |-> k - 1]
        ELSE [(IF k <= at THEN rest[k] ELSE rest[k - 1]) EXCEPT !.zIndex = k - 1]]

\* findIndex(l => l.id === id): 0-based, -1 when absent
RECURSIVE FindIndexFrom(_, _, _)
FindIndexFrom(layers, id, k) ==
  IF k > Len(layers) THEN -1
  ELSE IF layers[k].id = id THEN k - 1
       ELSE FindIndexFrom(layers, id, k + 1)

FindIndex(layers, id) == FindIndexFrom(layers, id, 1)

HasLayer(layers, id) == FindIndex(layers, id) # -1

\* find(l => l.id === id), the first match; used only when HasLayer
FindLayer(layers, id) == layers[FindIndex(layers, id) + 1]

\* textLayers.filter(layer => layer.id !== id)
RemoveById(layers, id) ==
  LET Keep(l) == l.id # id IN SelectSeq(layers, Keep)

(***************************************************************************)
(* State.  Home (page.tsx 28-40): canvasState, history, historyIndex,      *)
(* showGrid.  Canvas (Canvas.tsx 24-30): selectedId, isDragging,           *)
(* dragOffset, editingLayerId, editingText.  LayersPanel: draggedIndex.    *)
(* savedDesign is the localStorage entry AUTOSAVE_KEY, held as the         *)
(* document JSON.stringify was given: the entry is the text SavedText.     *)
(* storageFull tells that localStorage takes no more data (setItem         *)
(* throws).                                                                *)
(* lastOp, lastRecs and nrec observe the run: the last event, the number   *)
(* of snapshots it handed to addToHistory, and the number handed over in   *)
(* succession (since the last event that replaced the history or moved     *)
(* its cursor).                                                            *)
(* steps counts the events of a bounded run; samples holds the positions   *)
(* of the mousemove events handled since the last press, in order.         *)
(* zoom is the zoom of Home (page.tsx 39) in tenths: 10 is 100%.           *)
(* fileLoads holds the files ImageUpload has started to read and decode on *)
(* this page, in the order they were started, each with the mark of a      *)
(* finished decode; imageLoads the images whose element the canvas is      *)
(* loading and imageElement the element it paints (Canvas.tsx 30-42);      *)
(* exported the outcome of the last export.                                *)
(***************************************************************************)
VARIABLES canvasState, history, historyIndex, showGrid,
          selectedId, isDragging, dragOffset, editingLayerId, editingText,
          draggedIndex, savedDesign,
          zoom, fileLoads, imageLoads, imageElement, exported, storageFull, fontLoads,
          lastOp, lastRecs, nrec, steps, samples

progVars == <<canvasState, history, historyIndex>>
homeVars == <<canvasState, history, historyIndex, showGrid>>
canvasVars == <<selectedId, isDragging, dragOffset, editingLayerId, editingText>>
loadVars == <<fileLoads, imageLoads, imageElement>>
moreVars == <<zoom, fileLoads, imageLoads, imageElement, exported, storageFull, fontLoads>>
runVars == <<steps, samples>>
vars == <<canvasState, history, historyIndex, showGrid,
          selectedId, isDragging, dragOffset, editingLayerId, editingText,
          draggedIndex, savedDesign, zoom, fileLoads, imageLoads, imageElement,
          exported, storageFull, fontLoads, lastOp, lastRecs, nrec, steps, samples>>

NoImage == "null"
\* localStorage.getItem: <<>> for null, <<design>> for a stored design
NoDesign == <<>>
NoDrag == -1
\* the outcome of an export: <<>> while none was attempted, <<outcome>> after
NoExport == <<>>

blankState ==
  [ image |-> NoImage, imageWidth |-> 0, imageHeight |-> 0,
    textLayers |-> <<>>, selectedLayerId |-> NullId ]

\* the pending React state of Home an updater function works on
\* (n counts the snapshots the event has recorded so far)
Cur == [canvasState |-> canvasState, history |-> history,
        historyIndex |-> historyIndex, n |-> 0]

(***************************************************************************)
(* History management, page.tsx 112-158                                    *)
(***************************************************************************)
\* lines 131-140: the setHistory updater; index is the historyIndex of the
\* render that created the addToHistory callback (dependency list, line 142)
NewHistory(prevHistory, index, newState) ==
  LET newHistory == Append(Slice(prevHistory, index + 1), newState)
  IN IF Len(newHistory) > MAX_HISTORY_STEPS THEN Tail(newHistory) ELSE newHistory

\* lines 114-129: the setHistoryIndex updater queued by the setHistory updater
NewIndex(prevHistory, prevIndex, newState) ==
  LET newHistory == Append(Slice(prevHistory, prevIndex + 1), newState)
  IN IF Len(newHistory) > MAX_HISTORY_STEPS THEN MAX_HISTORY_STEPS - 1
     ELSE Len(newHistory) - 1

\* addToHistory(newState) called from inside a setCanvasState updater that
\* returns newState
addToHistory(st, index, newState) ==
  [ canvasState  |-> newState,
    history      |-> NewHistory(st.history, index, newState),
    historyIndex |-> NewIndex(st.history, st.historyIndex, newState),
    n            |-> st.n + 1 ]

canUndo == historyIndex > 0
canRedo == historyIndex < Len(history) - 1

\* history[i] for a 0-based i; undefined outside the array
Undefined == "undefined"
HistoryAt(h, i) == IF i + 1 \in 1..Len(h) THEN h[i + 1] ELSE Undefined

\* an undo that drops the entries after the new cursor
undoTruncating(st) ==
  IF st.historyIndex > 0
  THEN [st EXCEPT !.historyIndex = st.historyIndex - 1,
                  !.canvasState = HistoryAt(st.history, st.historyIndex - 1),
                  !.history = Slice(st.history, st.historyIndex)]
  ELSE st

\* undo and redo read history and historyIndex of the last render
undoState(st) ==
  IF st.historyIndex > 0
  THEN [st EXCEPT !.historyIndex = st.historyIndex - 1,
                  !.canvasState = HistoryAt(st.history, st.historyIndex - 1)]
  ELSE st

redoState(st) ==
  IF st.historyIndex < Len(st.history) - 1
  THEN [st EXCEPT !.historyIndex = st.historyIndex + 1,
                  !.canvasState = HistoryAt(st.history, st.historyIndex + 1)]
  ELSE st

(***************************************************************************)
(* Document operations of Home, page.tsx 161-272 and 527-535.  Each is the *)
(* setCanvasState updater of the handler: st is the pending state, index   *)
(* the historyIndex its addToHistory callback closed over.                 *)
(***************************************************************************)
\* { ...layer, ...updates }: updates is a record of some of the layer fields
Merge(layer, updates) ==
  [f \in DOMAIN layer |-> IF f \in DOMAIN updates THEN updates[f] ELSE layer[f]]

\* an updateCanvas that hands nothing to the history
updateUnrecorded(st, index, textLayers) ==
  [st EXCEPT !.canvasState.textLayers = textLayers]

\* updateCanvas({ textLayers }), lines 161-167
updateCanvas(st, index, textLayers) ==
  addToHistory(st, index, [st.canvasState EXCEPT !.textLayers = textLayers])

\* lines 185-194
handleSelectLayer(st, index, layerId) ==
  addToHistory(st, index, [st.canvasState EXCEPT !.selectedLayerId = layerId])

\* lines 196-212
handleUpdateLayer(st, index, updates) ==
  LET prevState == st.canvasState
      updatedLayers ==
        [k \in 1..Len(prevState.textLayers) |->
           IF prevState.textLayers[k].id = prevState.selectedLayerId
           THEN Merge(prevState.textLayers[k], updates)
           ELSE prevState.textLayers[k]]
  IN IF prevState.selectedLayerId = NullId THEN st
     ELSE addToHistory(st, index, [prevState EXCEPT !.textLayers = updatedLayers])

\* a delete that leaves the selection as it is
deleteKeepingSelection(st, index, layerId) ==
  addToHistory(st, index,
    [st.canvasState EXCEPT !.textLayers =
       normalizeZIndexes(RemoveById(st.canvasState.textLayers, layerId))])

\* lines 214-230
handleDeleteLayer(st, index, layerId) ==
  LET prevState == st.canvasState
      updatedLayers == RemoveById(prevState.textLayers, layerId)
      newSelectedLayerId ==
        IF prevState.selectedLayerId = layerId THEN NullId
        ELSE prevState.selectedLayerId
  IN addToHistory(st, index,
       [prevState EXCEPT !.textLayers = normalizeZIndexes(updatedLayers),
                         !.selectedLayerId = newSelectedLayerId])

\* lines 232-250; newId is the value Math.random() yields
handleDuplicateLayer(st, index, layerId, newId) ==
  LET prevState == st.canvasState
      layer == FindLayer(prevState.textLayers, layerId)
      duplicatedLayer ==
        [layer EXCEPT !.id = newId,
                      !.x = layer.x + DuplicateOffset,
                      !.y = layer.y + DuplicateOffset,
                      !.zIndex = getNextZIndex(prevState.textLayers)]
  IN IF ~HasLayer(prevState.textLayers, layerId) THEN st
     ELSE addToHistory(st, index,
            [prevState EXCEPT !.textLayers =
               normalizeZIndexes(Append(prevState.textLayers, duplicatedLayer))])

\* an add without the check for an image (line 254)
addWithoutImageCheck(st, index, newId) ==
  LET prevState == st.canvasState
      newLayer == [createDefaultTextLayer(newId, prevState.imageWidth \div 2 - AddOffsetX,
                                          prevState.imageHeight \div 2 - AddOffsetY)
                     EXCEPT !.zIndex = getNextZIndex(prevState.textLayers)]
  IN addToHistory(st, index,
       [prevState EXCEPT !.textLayers =
                            normalizeZIndexes(Append(prevState.textLayers, newLayer)),
                         !.selectedLayerId = newId])

\* lines 252-272; newId is the value generateId() yields
handleAddTextLayer(st, index, newId) ==
  LET prevState == st.canvasState
      newLayer ==
        [createDefaultTextLayer(newId,
            prevState.imageWidth \div 2 - AddOffsetX,
            prevState.imageHeight \div 2 - AddOffsetY)
           EXCEPT !.zIndex = getNextZIndex(prevState.textLayers)]
  IN IF prevState.image = NoImage THEN st
     ELSE addToHistory(st, index,
            [prevState EXCEPT !.textLayers =
                                 normalizeZIndexes(Append(prevState.textLayers, newLayer)),
                              !.selectedLayerId = newId])

\* onUpdateLayers of the layers panel, lines 527-535
onUpdateLayers(st, index, layers) ==
  addToHistory(st, index, [st.canvasState EXCEPT !.textLayers = normalizeZIndexes(layers)])

\* a load that records the new document after the entries already held
resetAppending(newState) ==
  [canvasState |-> newState, history |-> Append(history, newState),
   historyIndex |-> Len(history), n |-> 0]

\* a load that leaves the history empty for the first mutation to fill
resetUnseeded(newState) ==
  [canvasState |-> newState, history |-> <<>>, historyIndex |-> -1, n |-> 0]

\* lines 169-183 and 92-109: canvasState, history and historyIndex are set
\* directly
resetTo(newState) ==
  [canvasState |-> newState, history |-> <<newState>>, historyIndex |-> 0, n |-> 0]

handleImageUpload(imageData, width, height) ==
  resetTo([ image |-> imageData, imageWidth |-> width, imageHeight |-> height,
            textLayers |-> <<>>, selectedLayerId |-> NullId ])

handleResetDesign == resetTo(blankState)

(***************************************************************************)
(* Canvas geometry, Canvas.tsx 170-193 and 244-289                         *)
(***************************************************************************)
\* ctx.measureText(text).width for the font `${weight} ${size}px ${family}`:
\* the platform's text measurement, here a fixed advance per character that
\* grows with the size and is wider for bold
TextWidth(text, fontWeight, fontSize, fontFamily) ==
  Len(text) * ((fontSize \div 2) + (IF fontWeight = "bold" THEN 2 ELSE 0))

\* a grid snap that always moves on to the next grid line
snapToNextLine(value) == ((value \div GridSize) + 1) * GridSize

\* Math.round(value / gridSize) * gridSize; Math.round rounds halves up
snapToGrid(value) == ((2 * value + GridSize) \div (2 * GridSize)) * GridSize

\* a center snap that also takes a coordinate just SnapThreshold away
snapToCenterInclusive(x, y, imageWidth, imageHeight) ==
  LET centerX == imageWidth \div 2
      centerY == imageHeight \div 2
  IN [ x |-> IF Abs(x - centerX) <= SnapThreshold THEN centerX ELSE x,
       y |-> IF Abs(y - centerY) <= SnapThreshold THEN centerY ELSE y ]

snapToCenter(x, y, imageWidth, imageHeight) ==
  LET centerX == imageWidth \div 2
      centerY == imageHeight \div 2
  IN [ x |-> IF Abs(x - centerX) < SnapThreshold THEN centerX ELSE x,
       y |-> IF Abs(y - centerY) < SnapThreshold THEN centerY ELSE y ]

\* [...textLayers].sort((a, b) => b.zIndex - a.zIndex), a stable sort
RECURSIVE InsertByZDesc(_, _)
InsertByZDesc(sorted, layer) ==
  IF sorted = <<>> THEN <<layer>>
  ELSE IF Head(sorted).zIndex >= layer.zIndex
       THEN <<Head(sorted)>> \o InsertByZDesc(Tail(sorted), layer)
       ELSE <<layer>> \o sorted

RECURSIVE SortByZDesc(_)
SortByZDesc(layers) ==
  IF layers = <<>> THEN <<>>
  ELSE InsertByZDesc(SortByZDesc(SubSeq(layers, 1, Len(layers) - 1)), layers[Len(layers)])

\* a hit test that leaves out the opacity test of line 253
hitsAnyOpacity(layer, x, y) ==
  LET textWidth  == TextWidth(layer.text, layer.fontWeight, layer.fontSize, layer.fontFamily)
      layerX2 == CASE layer.textAlign = "left"   -> 2 * layer.x
                   [] layer.textAlign = "center" -> 2 * layer.x - textWidth
                   [] OTHER                      -> 2 * layer.x - 2 * textWidth
  IN /\ layer.isVisible
     /\ 2 * x >= layerX2
     /\ 2 * x <= layerX2 + 2 * textWidth
     /\ y >= layer.y - layer.fontSize
     /\ y <= layer.y

\* lines 253-284: the layer is hit-testable and its box contains (x, y);
\* the comparisons are doubled so that textWidth / 2 stays an integer
HitsLayer(layer, x, y) ==
  LET textWidth  == TextWidth(layer.text, layer.fontWeight, layer.fontSize, layer.fontFamily)
      textHeight == layer.fontSize
      layerX2 == CASE layer.textAlign = "left"   -> 2 * layer.x
                   [] layer.textAlign = "center" -> 2 * layer.x - textWidth
                   [] OTHER                      -> 2 * layer.x - 2 * textWidth
      layerY == layer.y - textHeight
  IN /\ layer.opacity > 0
     /\ layer.isVisible
     /\ 2 * x >= layerX2
     /\ 2 * x <= layerX2 + 2 * textWidth
     /\ y >= layerY
     /\ y <= layerY + textHeight

\* <<layer>> for the layer found, <<>> for null
RECURSIVE FirstHit(_, _, _)
FirstHit(sortedLayers, x, y) ==
  IF sortedLayers = <<>> THEN <<>>
  ELSE IF HitsLayer(Head(sortedLayers), x, y) THEN <<Head(sortedLayers)>>
       ELSE FirstHit(Tail(sortedLayers), x, y)

findLayerAtPosition(textLayers, x, y) == FirstHit(SortByZDesc(textLayers), x, y)

\* textLayers.map(l => l.id === id ? { ...l, ...updates } : l)
MapById(textLayers, id, updates) ==
  [k \in 1..Len(textLayers) |->
     IF textLayers[k].id = id THEN Merge(textLayers[k], updates) ELSE textLayers[k]]

(***************************************************************************)
(* Inputs of the model                                                     *)
(***************************************************************************)
Uploads == { [image |-> "imgA", width |-> 400, height |-> 300],
             [image |-> "imgB", width |-> 240, height |-> 270] }
\* getMousePos: a point inside a layer the toolbar has added, and a point that
\* is free until a double click puts a layer there
Points  == { [x |-> 120, y |-> 110], [x |-> 40, y |-> 40] }
Weights == { "normal", "bold" }
Texts   == { "", "Hi" }

\* editingText.trim() !== ''
NonBlank(text) == text \notin { "", " " }

(***************************************************************************)
(* JSON.stringify and JSON.parse of a document, page.tsx 67-69 and 84.  A  *)
(* JSON object is the function from the names of its members to their      *)
(* values; a value is <<"null">>, <<"true">>, <<"false">>, <<"number", n>>,*)
(* <<"string", s>> or <<"array", elements>>.                               *)
(***************************************************************************)
\* the NaN of parseInt and parseFloat, and the null in the place of a number
NaN == -99999
NullNumber == -99998

NumberFields == { "x", "y", "width", "height", "rotation", "fontSize", "opacity",
                  "zIndex", "imageWidth", "imageHeight" }

\* JSON.stringify of a number: NaN and the infinities become null
NumberJson(n) == IF n \in {NaN, NullNumber} THEN <<"null">> ELSE <<"number", n>>

RECURSIVE ValueJson(_, _)
ObjectJson(object) == [field \in DOMAIN object |-> ValueJson(field, object[field])]

ValueJson(field, value) ==
  CASE field \in NumberFields -> NumberJson(value)
    [] field = "isVisible" -> IF value THEN <<"true">> ELSE <<"false">>
    [] field = "image" -> IF value = NoImage THEN <<"null">> ELSE <<"string", value>>
    [] field = "selectedLayerId" -> IF value = NullId THEN <<"null">> ELSE <<"string", value>>
    [] field = "textLayers" -> <<"array", [k \in 1..Len(value) |-> ObjectJson(value[k])]>>
    [] OTHER -> <<"string", value>>

stringify(state) == ObjectJson(state)

RECURSIVE JsonValue(_, _)
JsonObject(members) == [field \in DOMAIN members |-> JsonValue(field, members[field])]

JsonValue(field, json) ==
  CASE json[1] = "null" ->
         (CASE field = "image" -> NoImage
            [] field = "selectedLayerId" -> NullId
            [] OTHER -> NullNumber)
    [] json[1] = "true" -> TRUE
    [] json[1] = "false" -> FALSE
    [] json[1] = "array" -> [k \in 1..Len(json[2]) |-> JsonObject(json[2][k])]
    [] OTHER -> json[2]

parse(text) == JsonObject(text)

\* localStorage.getItem(AUTOSAVE_KEY) when a design is saved
SavedText == stringify(savedDesign[1])

(***************************************************************************)
(* The effect of an event on the state of Home.  The autosave effect       *)
(* (page.tsx 81-89) runs after the render that follows.                    *)
(***************************************************************************)
Autosave(state) ==
  IF state.image # NoImage /\ ~storageFull THEN <<state>> ELSE savedDesign

Commit(op, st) ==
  /\ canvasState' = st.canvasState
  /\ history' = st.history
  /\ historyIndex' = st.historyIndex
  /\ savedDesign' = Autosave(st.canvasState)
  /\ lastOp' = op
  /\ lastRecs' = st.n
  /\ nrec' = nrec + st.n

\* an event that replaces the document without recording
Replace(op, st) ==
  /\ canvasState' = st.canvasState
  /\ history' = st.history
  /\ historyIndex' = st.historyIndex
  /\ lastOp' = op
  /\ lastRecs' = 0
  /\ nrec' = 0

(***************************************************************************)
(* Events of Home and its toolbar, page.tsx                                *)
(***************************************************************************)
\* a drag of the layers panel is a native drag-and-drop: until it ends the
\* browser delivers no keyboard or mouse events, only drag events
KeyFree == draggedIndex = NoDrag

\* the text-edit modal of the canvas covers the page (Canvas.tsx 551-555):
\* no pointer input reaches the toolbar, the panels or the canvas under it
PointerFree == KeyFree /\ editingLayerId = NullId

\* the effect of the canvas on canvasState.image (Canvas.tsx 33-42), after
\* the render that shows the document next: a new element starts to load
ImageEffect(next) ==
  IF next.image # NoImage /\ next.image # canvasState.image
  THEN imageLoads \cup {next.image}
  ELSE imageLoads

\* ImageUpload's decode callback calls onImageUpload (part_000, line 63)
UploadImage(u) ==
  LET st == handleImageUpload(u.image, u.width, u.height)
  IN /\ Replace("upload", st)
     /\ savedDesign' = Autosave(st.canvasState)
     /\ imageLoads' = ImageEffect(st.canvasState)
     /\ UNCHANGED <<zoom, imageElement, exported, storageFull, fontLoads, showGrid, canvasVars,
                    draggedIndex>>

\* lines 92-109; localStorage.removeItem(AUTOSAVE_KEY)
ResetDesign ==
  /\ PointerFree
  /\ Replace("reset", handleResetDesign)
  /\ savedDesign' = NoDesign
  /\ UNCHANGED <<moreVars, showGrid, canvasVars, draggedIndex>>

\* onAddText, line 452.  The toolbar shows the button only with an image
\* (Toolbar.tsx 82-90); the handler checks for the image itself (line 254)
\* and is callable in every state.
AddText(newId) ==
  /\ PointerFree
  /\ Commit("add", handleAddTextLayer(Cur, historyIndex, newId))
  /\ UNCHANGED <<moreVars, showGrid, canvasVars, draggedIndex>>

\* undo: Ctrl+Z (lines 382-389), toolbar and history indicator buttons
Undo ==
  LET st == undoState(Cur)
  IN /\ KeyFree
     /\ Replace("undo", st)
     /\ savedDesign' = Autosave(st.canvasState)
     /\ UNCHANGED <<moreVars, showGrid, canvasVars, draggedIndex>>

\* redo: Ctrl+Y, Ctrl+Shift+Z (lines 384-393), the buttons
Redo ==
  LET st == redoState(Cur)
  IN /\ KeyFree
     /\ Replace("redo", st)
     /\ savedDesign' = Autosave(st.canvasState)
     /\ UNCHANGED <<moreVars, showGrid, canvasVars, draggedIndex>>

\* Delete / Backspace (lines 403-408) and the toolbar button (line 454)
DeleteSelected ==
  /\ KeyFree
  /\ canvasState.selectedLayerId # NullId
  /\ Commit("delete", handleDeleteLayer(Cur, historyIndex, canvasState.selectedLayerId))
  /\ UNCHANGED <<moreVars, showGrid, canvasVars, draggedIndex>>

\* Ctrl+D (lines 394-399) and the toolbar button (line 453)
DuplicateSelected(newId) ==
  /\ KeyFree
  /\ canvasState.selectedLayerId # NullId
  /\ Commit("duplicate",
            handleDuplicateLayer(Cur, historyIndex, canvasState.selectedLayerId, newId))
  /\ UNCHANGED <<moreVars, showGrid, canvasVars, draggedIndex>>

\* toolbar, line 458
ToggleGrid ==
  /\ PointerFree
  /\ showGrid' = ~showGrid
  /\ lastOp' = "grid"
  /\ UNCHANGED <<moreVars, progVars, canvasVars, draggedIndex, savedDesign, nrec>>
  /\ lastRecs' = 0

\* a reload of the page: every component starts from its initial state, and
\* the mount effect (lines 64-78) restores the saved design
PageReload ==
  LET st == IF savedDesign = NoDesign
            THEN [canvasState |-> blankState, history |-> <<>>, historyIndex |-> -1]
            ELSE resetTo(parse(SavedText))
  IN /\ Replace("reload", st)
     /\ showGrid' = FALSE
     /\ selectedId' = NullId
     /\ isDragging' = FALSE
     /\ dragOffset' = [x |-> 0, y |-> 0]
     /\ editingLayerId' = NullId
     /\ editingText' = ""
     /\ draggedIndex' = NoDrag
     /\ zoom' = 10
     /\ fileLoads' = <<>>
     /\ imageLoads' = IF st.canvasState.image # NoImage THEN {st.canvasState.image} ELSE {}
     /\ imageElement' = NoImage
     /\ UNCHANGED <<savedDesign, exported, storageFull, fontLoads>>

(***************************************************************************)
(* Events of the layers panel (LayersPanel.tsx, part_001) and of the       *)
(* properties panel (TextProperties.tsx)                                   *)
(***************************************************************************)
LayerIds == { canvasState.textLayers[k].id : k \in 1..Len(canvasState.textLayers) }

\* onClick={() => onSelectLayer(layer.id)}
PanelSelect(id) ==
  /\ PointerFree
  /\ id \in LayerIds
  /\ Commit("select", handleSelectLayer(Cur, historyIndex, id))
  /\ UNCHANGED <<moreVars, showGrid, canvasVars, draggedIndex>>

PanelDelete(id) ==
  /\ PointerFree
  /\ id \in LayerIds
  /\ Commit("delete", handleDeleteLayer(Cur, historyIndex, id))
  /\ UNCHANGED <<moreVars, showGrid, canvasVars, draggedIndex>>

PanelDuplicate(id, newId) ==
  /\ PointerFree
  /\ id \in LayerIds
  /\ Commit("duplicate", handleDuplicateLayer(Cur, historyIndex, id, newId))
  /\ UNCHANGED <<moreVars, showGrid, canvasVars, draggedIndex>>

\* handleMoveLayer(layerId, direction), part_001 73-88, on the layers prop of
\* the last render; the early returns leave the pending state as it is
handleMoveLayer(st, index, layers, layerId, direction) ==
  LET currentIndex == FindIndex(layers, layerId)
  IN IF currentIndex = -1 THEN st
     ELSE IF direction = "up" /\ currentIndex < Len(layers) - 1
     THEN onUpdateLayers(st, index, reorderLayers(layers, currentIndex, currentIndex + 1))
     ELSE IF direction = "down" /\ currentIndex > 0
     THEN onUpdateLayers(st, index, reorderLayers(layers, currentIndex, currentIndex - 1))
     ELSE st

\* the move buttons of a row (part_001 219-238)
MoveLayer(id, direction) ==
  /\ PointerFree
  /\ id \in LayerIds
  /\ Commit("move", handleMoveLayer(Cur, historyIndex, canvasState.textLayers, id, direction))
  /\ UNCHANGED <<moreVars, showGrid, canvasVars, draggedIndex>>

\* handleDragStart(layerId), part_001 35-38
PanelDragStart(id) ==
  /\ PointerFree
  /\ id \in LayerIds
  /\ draggedIndex = NoDrag
  /\ draggedIndex' = FindIndex(canvasState.textLayers, id)
  /\ lastOp' = "dragstart"
  /\ UNCHANGED <<moreVars, progVars, showGrid, canvasVars, savedDesign, nrec>>
  /\ lastRecs' = 0

\* handleDragOver(e, targetLayerId), part_001 40-50, for the draggedIndex and
\* the layers prop of the last render
handleDragOver(st, index, layers, dragged, targetLayerId) ==
  LET targetIndex == FindIndex(layers, targetLayerId)
  IN IF dragged = NoDrag \/ dragged = targetIndex THEN st
     ELSE onUpdateLayers(st, index, reorderLayers(layers, dragged, targetIndex))

\* a dragover event that reaches a row other than the one the drag is at
PanelDragOver(targetLayerId) ==
  LET layers == canvasState.textLayers
      targetIndex == FindIndex(layers, targetLayerId)
  IN /\ targetLayerId \in LayerIds
     /\ draggedIndex # NoDrag
     /\ draggedIndex # targetIndex
     /\ Commit("reorder", handleDragOver(Cur, historyIndex, layers, draggedIndex,
                                         targetLayerId))
     /\ draggedIndex' = targetIndex
     /\ UNCHANGED <<moreVars, showGrid, canvasVars>>

\* handleDragEnd, part_001 56-64: the layers are already normalized
PanelDragEnd ==
  /\ draggedIndex # NoDrag
  /\ draggedIndex' = NoDrag
  /\ lastOp' = "dragend"
  /\ UNCHANGED <<moreVars, progVars, showGrid, canvasVars, savedDesign, nrec>>
  /\ lastRecs' = 0

\* the layer the properties panel shows (page.tsx 365-367)
HasSelectedLayer ==
  /\ canvasState.selectedLayerId # NullId
  /\ HasLayer(canvasState.textLayers, canvasState.selectedLayerId)

selectedLayer == FindLayer(canvasState.textLayers, canvasState.selectedLayerId)

\* handleFontWeightChange(weight), TextProperties.tsx 79-96: two updates
ChangeFontWeight(weight) ==
  LET st1 == handleUpdateLayer(Cur, historyIndex, [fontWeight |-> weight])
      st2 == handleUpdateLayer(st1, historyIndex,
               [ fontWeight |-> weight,
                 width  |-> TextWidth(selectedLayer.text, weight,
                                      selectedLayer.fontSize, selectedLayer.fontFamily),
                 height |-> selectedLayer.fontSize ])
  IN /\ PointerFree
     /\ HasSelectedLayer
     /\ Commit("weight", st2)
     /\ UNCHANGED <<moreVars, showGrid, canvasVars, draggedIndex>>

(***************************************************************************)
(* Events of the canvas, Canvas.tsx 291-496.  The canvas element exists    *)
(* only while an image is loaded (lines 504-513).                          *)
(***************************************************************************)
HasCanvas == canvasState.image # NoImage

\* handleMouseDown, lines 291-311; pos is getMousePos(e)
MouseDown(pos) ==
  LET hit == findLayerAtPosition(canvasState.textLayers, pos.x, pos.y)
  IN /\ PointerFree
     /\ HasCanvas
     /\ IF hit # <<>>
        THEN /\ selectedId' = hit[1].id
             /\ Commit("select", handleSelectLayer(Cur, historyIndex, hit[1].id))
             /\ isDragging' = TRUE
             /\ dragOffset' = [x |-> pos.x - hit[1].x, y |-> pos.y - hit[1].y]
        ELSE /\ selectedId' = NullId
             /\ Commit("select", handleSelectLayer(Cur, historyIndex, NullId))
             /\ UNCHANGED <<isDragging, dragOffset>>
     /\ UNCHANGED <<moreVars, showGrid, editingLayerId, editingText, draggedIndex>>

\* the position after the snaps, lines 320-327 and 217-224
Snapped(x, y) ==
  snapToCenter(IF showGrid THEN snapToGrid(x) ELSE x,
               IF showGrid THEN snapToGrid(y) ELSE y,
               canvasState.imageWidth, canvasState.imageHeight)

\* a handleMouseMove that leaves the layer where it is
mouseMoveDropping(pos) ==
  /\ PointerFree
  /\ HasCanvas
  /\ isDragging
  /\ selectedId # NullId
  /\ Commit("drag", updateCanvas(Cur, historyIndex, canvasState.textLayers))
  /\ UNCHANGED <<moreVars, showGrid, canvasVars, draggedIndex>>

\* handleMouseMove, lines 313-336
MouseMove(pos) ==
  LET snapped == Snapped(pos.x - dragOffset.x, pos.y - dragOffset.y)
      updatedLayers == MapById(canvasState.textLayers, selectedId,
                               [x |-> snapped.x, y |-> snapped.y])
  IN /\ PointerFree
     /\ HasCanvas
     /\ isDragging
     /\ selectedId # NullId
     /\ Commit("drag", updateCanvas(Cur, historyIndex, updatedLayers))
     /\ UNCHANGED <<moreVars, showGrid, canvasVars, draggedIndex>>

\* handleMouseUp, lines 338-340
MouseUp ==
  /\ PointerFree
  /\ HasCanvas
  /\ isDragging
  /\ isDragging' = FALSE
  /\ lastOp' = "mouseup"
  /\ UNCHANGED <<moreVars, progVars, showGrid, selectedId, dragOffset, editingLayerId,
                 editingText, draggedIndex, savedDesign, nrec>>
  /\ lastRecs' = 0

\* handleDoubleClick, lines 342-375; newId is the value generateId() yields
DoubleClick(pos, newId) ==
  LET hit == findLayerAtPosition(canvasState.textLayers, pos.x, pos.y)
      x == IF showGrid THEN snapToGrid(pos.x) ELSE pos.x
      y == IF showGrid THEN snapToGrid(pos.y) ELSE pos.y
      newLayer == [createDefaultTextLayer(newId, x, y)
                     EXCEPT !.zIndex = getNextZIndex(canvasState.textLayers)]
      updatedLayers == Append(canvasState.textLayers, newLayer)
  IN /\ PointerFree
     /\ HasCanvas
     /\ IF hit # <<>>
        THEN /\ editingLayerId' = hit[1].id
             /\ editingText' = hit[1].text
             /\ selectedId' = hit[1].id
             /\ Commit("editopen", handleSelectLayer(Cur, historyIndex, hit[1].id))
        ELSE /\ Commit("dblclickadd",
                       handleSelectLayer(updateCanvas(Cur, historyIndex, updatedLayers),
                                         historyIndex, newId))
             /\ selectedId' = newId
             /\ editingLayerId' = newId
             /\ editingText' = newLayer.text
     /\ UNCHANGED <<moreVars, showGrid, isDragging, dragOffset, draggedIndex>>

\* onChange of the modal's textarea, line 572
TextEditChange(text) ==
  /\ editingLayerId # NullId
  /\ editingText' = text
  /\ lastOp' = "edittype"
  /\ UNCHANGED <<moreVars, progVars, showGrid, selectedId, isDragging, dragOffset,
                 editingLayerId, draggedIndex, savedDesign, nrec>>
  /\ lastRecs' = 0

\* handleTextEditSave, lines 377-403
TextEditSave ==
  LET layers == canvasState.textLayers
      layer == FindLayer(layers, editingLayerId)
      updatedLayers == MapById(layers, editingLayerId,
        [ text   |-> editingText,
          width  |-> TextWidth(editingText, layer.fontWeight, layer.fontSize,
                               layer.fontFamily),
          height |-> layer.fontSize ])
  IN /\ editingLayerId # NullId
     /\ IF NonBlank(editingText) /\ HasLayer(layers, editingLayerId)
        THEN Commit("editsave", updateCanvas(Cur, historyIndex, updatedLayers))
        ELSE Commit("editsave", Cur)
     /\ editingLayerId' = NullId
     /\ editingText' = ""
     /\ UNCHANGED <<moreVars, showGrid, selectedId, isDragging, dragOffset, draggedIndex>>

\* handleTextEditCancel, lines 405-408
TextEditCancel ==
  /\ editingLayerId # NullId
  /\ editingLayerId' = NullId
  /\ editingText' = ""
  /\ lastOp' = "editcancel"
  /\ UNCHANGED <<moreVars, progVars, showGrid, selectedId, isDragging, dragOffset,
                 draggedIndex, savedDesign, nrec>>
  /\ lastRecs' = 0

\* the canvas's keydown listener, lines 427-496
CanvasKeys == KeyFree /\ editingLayerId = NullId /\ selectedId # NullId

\* 'r' / 'R', lines 469-481
KeyRotate(shiftKey) ==
  LET layers == canvasState.textLayers
      layer == FindLayer(layers, selectedId)
      rotationAmount == IF shiftKey THEN RotateStepShift ELSE RotateStep
      newRotation == Rem(layer.rotation + rotationAmount, FullTurn)
  IN /\ CanvasKeys
     /\ IF HasLayer(layers, selectedId)
        THEN Commit("rotate", updateCanvas(Cur, historyIndex,
                       MapById(layers, selectedId, [rotation |-> newRotation])))
        ELSE Commit("rotate", Cur)
     /\ UNCHANGED <<moreVars, showGrid, canvasVars, draggedIndex>>

\* '0': the listener of Home resets the zoom (page.tsx 417-420) and the
\* listener of the canvas, with a selectedId, the rotation (lines 483-490)
KeyZero ==
  /\ KeyFree
  /\ editingLayerId = NullId
  /\ zoom' = 10
  /\ IF selectedId # NullId
     THEN Commit("rotatereset", updateCanvas(Cur, historyIndex,
                    MapById(canvasState.textLayers, selectedId, [rotation |-> 0])))
     ELSE Commit("zoom", Cur)
  /\ UNCHANGED <<loadVars, exported, storageFull, fontLoads, showGrid, canvasVars, draggedIndex>>

\* nudgeLayer(selectedId, direction, amount), lines 195-231 and 438-467
NudgeStep == 10
NudgeStepShift == 50

nudgeLayer(layers, layerId, direction, amount) ==
  LET layer == FindLayer(layers, layerId)
      newX == CASE direction = "left"  -> layer.x - amount
                [] direction = "right" -> layer.x + amount
                [] OTHER               -> layer.x
      newY == CASE direction = "up"   -> layer.y - amount
                [] direction = "down" -> layer.y + amount
                [] OTHER              -> layer.y
      snapped == Snapped(newX, newY)
  IN MapById(layers, layerId, [x |-> snapped.x, y |-> snapped.y])

\* the arrow keys, lines 438-467
KeyArrow(direction, shiftKey) ==
  LET layers == canvasState.textLayers
      amount == IF shiftKey THEN NudgeStepShift ELSE NudgeStep
  IN /\ CanvasKeys
     /\ IF HasLayer(layers, selectedId)
        THEN Commit("nudge", updateCanvas(Cur, historyIndex,
                       nudgeLayer(layers, selectedId, direction, amount)))
        ELSE Commit("nudge", Cur)
     /\ UNCHANGED <<moreVars, showGrid, canvasVars, draggedIndex>>

(***************************************************************************)
(* The application: every event, in runs of at most MaxSteps events and    *)
(* documents of at most MaxLayers layers                                   *)
(***************************************************************************)
Init ==
  /\ canvasState = blankState
  /\ history = <<>>
  /\ historyIndex = -1
  /\ showGrid = FALSE
  /\ selectedId = NullId
  /\ isDragging = FALSE
  /\ dragOffset = [x |-> 0, y |-> 0]
  /\ editingLayerId = NullId
  /\ editingText = ""
  /\ draggedIndex = NoDrag
  /\ savedDesign = NoDesign
  /\ zoom = 10
  /\ fileLoads = <<>>
  /\ imageLoads = {}
  /\ imageElement = NoImage
  /\ exported = NoExport
  /\ storageFull = FALSE
  /\ fontLoads = {}
  /\ lastOp = "init"
  /\ lastRecs = 0
  /\ nrec = 0
  /\ steps = 0
  /\ samples = <<>>

Room == Len(canvasState.textLayers) < MaxLayers

\* one more event of a run of at most MaxSteps events
Tick == steps < MaxSteps /\ steps' = steps + 1 /\ UNCHANGED samples

Next ==
  \/ Tick /\ \E u \in Uploads : UploadImage(u) /\ UNCHANGED fileLoads
  \/ Tick /\ ResetDesign
  \/ Tick /\ PageReload
  \/ Tick /\ Room /\ \E newId \in Ids : AddText(newId)
  \/ Tick /\ Undo
  \/ Tick /\ Redo
  \/ Tick /\ DeleteSelected
  \/ Tick /\ Room /\ \E newId \in Ids : DuplicateSelected(newId)
  \/ Tick /\ ToggleGrid
  \/ Tick /\ \E id \in Ids : PanelSelect(id)
  \/ Tick /\ \E id \in Ids : PanelDelete(id)
  \/ Tick /\ Room /\ \E id, newId \in Ids : PanelDuplicate(id, newId)
  \/ Tick /\ \E id \in Ids, direction \in {"up", "down"} : MoveLayer(id, direction)
  \/ Tick /\ \E id \in Ids : PanelDragStart(id)
  \/ Tick /\ \E id \in Ids : PanelDragOver(id)
  \/ Tick /\ PanelDragEnd
  \/ Tick /\ \E weight \in Weights : ChangeFontWeight(weight)
  \/ Tick /\ \E pos \in Points : MouseDown(pos)
  \/ Tick /\ \E pos \in Points : MouseMove(pos)
  \/ Tick /\ MouseUp
  \/ Tick /\ \E pos \in Points, newId \in Ids :
              (Room \/ findLayerAtPosition(canvasState.textLayers, pos.x, pos.y) # <<>>)
              /\ DoubleClick(pos, newId)
  \/ Tick /\ \E text \in Texts : TextEditChange(text)
  \/ Tick /\ TextEditSave
  \/ Tick /\ TextEditCancel
  \/ Tick /\ \E shiftKey \in BOOLEAN : KeyRotate(shiftKey)
  \/ Tick /\ selectedId # NullId /\ KeyZero
  \/ Tick /\ \E direction \in {"up", "down", "left", "right"}, shiftKey \in BOOLEAN :
              KeyArrow(direction, shiftKey)

Spec == Init /\ [][Next]_vars

(***************************************************************************)
(* Successive recordings: one image, one layer, and then nothing but       *)
(* weight changes of the properties panel, each of which hands two         *)
(* snapshots to addToHistory, until MaxRecs snapshots have been handed     *)
(* over.  No event of these runs replaces the history or moves its cursor. *)
(***************************************************************************)
NextRecords ==
  \/ /\ canvasState.image = NoImage
     /\ \E u \in Uploads : UploadImage(u) /\ UNCHANGED fileLoads
     /\ UNCHANGED runVars
  \/ /\ canvasState.image # NoImage
     /\ canvasState.textLayers = <<>>
     /\ \E newId \in Ids : AddText(newId)
     /\ UNCHANGED runVars
  \/ /\ nrec < MaxRecs
     /\ \E weight \in Weights : ChangeFontWeight(weight)
     /\ UNCHANGED runVars

SpecRecords == Init /\ [][NextRecords]_vars

(***************************************************************************)
(* The history manager                                                     *)
(***************************************************************************)
\* C1: in every reachable state where the history is non-empty the cursor
\* satisfies 0 <= historyIndex < Len(history), also after an event that
\* commits two snapshots before the next render.
C1_CursorInBounds ==
  history # <<>> => (0 <= historyIndex /\ historyIndex < Len(history))

\* k undos in succession, each after the render that follows the one before
RECURSIVE UndoTimes(_, _)
UndoTimes(st, k) == IF k = 0 THEN st ELSE UndoTimes(undoState(st), k - 1)

\* C2: the history never holds more than MAX_HISTORY_STEPS entries, and after
\* more than MAX_HISTORY_STEPS snapshots recorded in succession it holds
\* exactly that many, the cursor is at the last of them, that many undos less
\* one reach the first entry and one more undo changes nothing.
C2_HistoryBound ==
  /\ Len(history) <= MAX_HISTORY_STEPS
  /\ nrec > MAX_HISTORY_STEPS =>
       /\ Len(history) = MAX_HISTORY_STEPS
       /\ historyIndex = MAX_HISTORY_STEPS - 1
       /\ UndoTimes(Cur, MAX_HISTORY_STEPS - 1).historyIndex = 0
       /\ UndoTimes(Cur, MAX_HISTORY_STEPS - 1).canvasState = history[1]
       /\ UndoTimes(Cur, MAX_HISTORY_STEPS) = UndoTimes(Cur, MAX_HISTORY_STEPS - 1)

\* C3: whenever undo is available, undo followed at once by redo restores the
\* live document, the history entries and the cursor to what they were before
\* the undo.
C3_UndoRedoInverse ==
  canUndo => redoState(undoState(Cur)) = Cur

\* C4: right after an event that recorded a snapshot, redo is unavailable:
\* the cursor is at the last entry of the history and that entry is the
\* snapshot just recorded, the live document.
C4_CursorAtRecorded ==
  lastRecs > 0 =>
    /\ ~canRedo
    /\ historyIndex = Len(history) - 1
    /\ history[Len(history)] = canvasState

\* C5: an undo with the cursor at 0 or an empty history, and a redo with the
\* cursor at the newest entry, change neither the document nor the history nor
\* the cursor; a valid undo or redo moves the cursor by exactly one, makes the
\* entry at the new cursor the live document, and leaves every history entry
\* as it is.
C5_UndoRedoFrame ==
  [][ /\ lastOp' = "undo" =>
           IF historyIndex > 0
           THEN /\ historyIndex' = historyIndex - 1
                /\ canvasState' = history[historyIndex' + 1]
                /\ history' = history
           ELSE UNCHANGED <<canvasState, history, historyIndex>>
      /\ lastOp' = "redo" =>
           IF historyIndex < Len(history) - 1
           THEN /\ historyIndex' = historyIndex + 1
                /\ canvasState' = history[historyIndex' + 1]
                /\ history' = history
           ELSE UNCHANGED <<canvasState, history, historyIndex>>
    ]_vars

\* a valid undo has acted: the cursor is past the first entry (an undo that
\* changes nothing leaves it at 0 or below) and a redo is now available
C5_UndoActed ==
  lastOp = "undo" /\ historyIndex >= 1 /\ canRedo

(***************************************************************************)
(* The document                                                            *)
(***************************************************************************)
\* the snapshot the history held last before the one an event has recorded
PrevEntry == history[Len(history) - 1]

\* C6: after any structural operation (toolbar add, double-click add, delete,
\* duplicate, reorder, move up or down) and after any undo or redo, the
\* zIndex values of the document's N layers are exactly 0 .. N-1, without
\* gaps and without duplicates.
C6_ZIndexDense ==
  LET layers == canvasState.textLayers
  IN /\ { layers[k].zIndex : k \in 1..Len(layers) } = 0..(Len(layers) - 1)
     /\ \A j, k \in 1..Len(layers) : layers[j].zIndex = layers[k].zIndex => j = k

\* a delete has removed the lower of two layers and renumbered the other
C6_DeletedBelow ==
  /\ lastOp = "delete"
  /\ lastRecs = 1
  /\ Len(history) >= 2
  /\ Len(PrevEntry.textLayers) = 2
  /\ Len(canvasState.textLayers) = 1
  /\ PrevEntry.textLayers[2].id = canvasState.textLayers[1].id
  /\ PrevEntry.textLayers[1].id # canvasState.textLayers[1].id

\* C7: in every reachable state the document's selectedLayerId is none or the
\* id of a layer of the document (after select, add, delete, duplicate,
\* reorder, image load, reset, undo and redo); deleting the selected layer
\* clears the selection.
C7_SelectionValid ==
  \/ canvasState.selectedLayerId = NullId
  \/ HasLayer(canvasState.textLayers, canvasState.selectedLayerId)

\* the selected layer has been deleted while another layer stays
C7_DeletedSelected ==
  /\ lastOp = "delete"
  /\ lastRecs = 1
  /\ Len(history) >= 2
  /\ PrevEntry.selectedLayerId # NullId
  /\ ~HasLayer(canvasState.textLayers, PrevEntry.selectedLayerId)
  /\ canvasState.textLayers # <<>>

\* C8: in every reachable document no two layers have the same id, whatever
\* sequence of add, double-click add and duplicate produced them.
C8_UniqueIds ==
  LET layers == canvasState.textLayers
  IN \A j, k \in 1..Len(layers) : layers[j].id = layers[k].id => j = k

\* C9: an image load makes the document the given image and dimensions with
\* no layers and no selection, a reset makes it the blank document, and each
\* makes the history exactly that one document with the cursor at 0, so that
\* neither undo nor redo is available.
C9_LoadAndReset ==
  LET sole == /\ history = <<canvasState>>
              /\ historyIndex = 0
              /\ ~canUndo /\ ~canRedo
              /\ undoState(Cur) = Cur /\ redoState(Cur) = Cur
  IN /\ lastOp = "upload" =>
          /\ \E u \in Uploads :
               canvasState = [ image |-> u.image, imageWidth |-> u.width,
                               imageHeight |-> u.height, textLayers |-> <<>>,
                               selectedLayerId |-> NullId ]
          /\ sole
     /\ lastOp = "reset" => canvasState = blankState /\ sole

\* an image has been loaded over a document that had a layer: the canvas
\* still holds the id of the layer it had selected
C9_LoadedOverDocument ==
  lastOp = "upload" /\ selectedId # NullId

\* C10: in every reachable state a document without an image has no layers
\* and no selection; a request to add a layer while no image is loaded
\* changes neither the document nor the history nor the cursor, and the
\* canvas takes no double click without an image.
C10_NoImageNoLayers ==
  /\ [](canvasState.image = NoImage =>
          canvasState.textLayers = <<>> /\ canvasState.selectedLayerId = NullId)
  /\ [][ /\ (lastOp' = "add" /\ canvasState.image = NoImage) =>
               UNCHANGED <<canvasState, history, historyIndex>>
         /\ lastOp' \in {"dblclickadd", "editopen"} => canvasState.image # NoImage
       ]_vars

\* the add of the toolbar has been requested with no image loaded
C10_AddWithoutImage ==
  lastOp = "add" /\ canvasState.image = NoImage

(***************************************************************************)
(* The first entry of the history                                          *)
(***************************************************************************)
\* some event has loaded a document: an image, the blank document of a reset,
\* or the saved design a page load restores
Loaded ==
  \/ lastOp \in {"upload", "reset"}
  \/ lastOp = "reload" /\ savedDesign # NoDesign

CopyAppended(k) ==
  LET old == canvasState.textLayers
      new == canvasState'.textLayers
      copy == new[Len(new)]
  IN /\ Len(new) = Len(old) + 1
     /\ SubSeq(new, 1, Len(old)) = old
     /\ copy = [old[k] EXCEPT !.id = copy.id,
                              !.x = old[k].x + DuplicateOffset,
                              !.y = old[k].y + DuplicateOffset,
                              !.zIndex = Len(old)]
     /\ canvasState' = [canvasState EXCEPT !.textLayers = new]

\* C12: a duplicate of a layer of the document adds exactly one layer, with an
\* id other than the source's, at (x+20, y+20), with zIndex N and every other
\* field equal to the source's, and leaves the other layers and the selection
\* as they are; a duplicate of an id the document does not hold changes
\* neither the document nor the history nor the cursor.
C12_DuplicateAddsCopy ==
  [][ lastOp' = "duplicate" =>
        IF lastRecs' = 0
        THEN UNCHANGED <<canvasState, history, historyIndex>>
        ELSE \E k \in 1..Len(canvasState.textLayers) :
               /\ CopyAppended(k)
               /\ canvasState'.textLayers[Len(canvasState'.textLayers)].id
                    # canvasState.textLayers[k].id
    ]_vars

\* the layers but the k-th, in their order
WithoutAt(layers, k) == SubSeq(layers, 1, k - 1) \o SubSeq(layers, k + 1, Len(layers))

\* the document of the next state is the document of this one without its
\* k-th layer: the others in their order, renumbered from 0, and the selection
\* cleared if it was that layer
LayerRemoved(k) ==
  LET old == canvasState.textLayers
      rest == WithoutAt(old, k)
  IN canvasState' =
       [canvasState EXCEPT
          !.textLayers = [j \in 1..Len(rest) |-> [rest[j] EXCEPT !.zIndex = j - 1]],
          !.selectedLayerId = IF canvasState.selectedLayerId = old[k].id THEN NullId
                              ELSE canvasState.selectedLayerId]

\* C13: a delete of a layer of the document leaves exactly the other layers,
\* in their stacking order, with zIndex 0 .. N-2 and every other field as it
\* was; the selection becomes none if it was the deleted layer and is
\* unchanged otherwise.
C13_DeleteRemovesOne ==
  [][ lastOp' = "delete" => \E k \in 1..Len(canvasState.textLayers) : LayerRemoved(k) ]_vars

\* the document of the next state differs from the document of this one at
\* most in the given fields of its k-th layer
UpdatedOnly(k, fields) ==
  LET old == canvasState.textLayers
      new == canvasState'.textLayers
  IN /\ Len(new) = Len(old)
     /\ \A j \in 1..Len(old) : j # k => new[j] = old[j]
     /\ \A f \in DOMAIN old[k] \ fields : new[k][f] = old[k][f]
     /\ canvasState' = [canvasState EXCEPT !.textLayers = new]

\* the fields a weight change of the properties panel passes to onUpdateLayer
WeightFields == {"fontWeight", "width", "height"}

\* C14: a layer update changes only the fields it names, of the one layer it
\* targets: every other layer, every other field of the target (id and zIndex
\* among them), the image, the dimensions and the selection stay; with no
\* layer selected the update changes neither the document nor the history nor
\* the cursor.
C14_UpdateFrame ==
  [][ lastOp' = "weight" =>
        IF canvasState.selectedLayerId = NullId
        THEN UNCHANGED <<canvasState, history, historyIndex>>
        ELSE \E k \in 1..Len(canvasState.textLayers) :
               /\ canvasState.textLayers[k].id = canvasState.selectedLayerId
               /\ UpdatedOnly(k, WeightFields)
    ]_vars

\* new holds the layers of old with the a-th moved to position b: that layer
\* and the others, in their order, with no field but zIndex changed and the
\* zIndex values 0 .. N-1
MovedTo(old, new, a, b) ==
  LET others == WithoutAt(old, a)
      now    == WithoutAt(new, b)
  IN /\ Len(new) = Len(old)
     /\ new[b] = [old[a] EXCEPT !.zIndex = b - 1]
     /\ \A j \in 1..Len(others) : [now[j] EXCEPT !.zIndex = 0] = [others[j] EXCEPT !.zIndex = 0]
     /\ \A j \in 1..Len(new) : new[j].zIndex = j - 1

\* C15: moving the layer at stacking position a to position b (move up, move
\* down, a drag of its row over the row at b) yields the same layers with the
\* moved one at b, the others in their order, no field but zIndex changed and
\* zIndex 0 .. N-1; move up on the topmost layer and move down on the
\* bottommost change neither the document nor the history nor the cursor.
C15_MoveReorders ==
  LET layers == canvasState.textLayers
      N == Len(layers)
      up(a)   == handleMoveLayer(Cur, historyIndex, layers, layers[a].id, "up")
      down(a) == handleMoveLayer(Cur, historyIndex, layers, layers[a].id, "down")
      drag(a, b) == handleDragOver(Cur, historyIndex, layers,
                                   FindIndex(layers, layers[a].id), layers[b].id)
      Moved(st, a, b) ==
        /\ MovedTo(layers, st.canvasState.textLayers, a, b)
        /\ st.canvasState = [canvasState EXCEPT !.textLayers = st.canvasState.textLayers]
  IN \A a \in 1..N :
       /\ IF a < N THEN Moved(up(a), a, a + 1) ELSE up(a) = Cur
       /\ IF a > 1 THEN Moved(down(a), a, a - 1) ELSE down(a) = Cur
       /\ \A b \in 1..N : b # a => Moved(drag(a, b), a, b)

(***************************************************************************)
(* Operations addressed to a layer that is gone                            *)
(***************************************************************************)
\* a key of the canvas with a selectedId, or a save of the text editor with an
\* editingLayerId, that no layer of the document has
StaleCanvasOpIdle ==
  /\ (lastOp' \in {"nudge", "rotate", "rotatereset"}
      /\ ~HasLayer(canvasState.textLayers, selectedId))
       => UNCHANGED <<canvasState, history, historyIndex>>
  /\ (lastOp' = "editsave" /\ ~HasLayer(canvasState.textLayers, editingLayerId))
       => UNCHANGED <<canvasState, history, historyIndex>>

\* C16: an operation of the canvas that targets a layer id no longer in the
\* document (nudge, rotate, rotation reset, text-edit commit addressed to a
\* stale id) changes neither the document nor the history entries nor the
\* cursor.
C16_StaleIdNoOp == [][StaleCanvasOpIdle]_vars

(***************************************************************************)
(* Hit testing: findLayerAtPosition on documents of up to MaxHitLayers     *)
(* rotated layers of every alignment, opacity and visibility, as a page    *)
(* load restores them, under at most MaxPresses presses of the mouse on    *)
(* the canvas (a press records the selection in the history)               *)
(***************************************************************************)
MaxHitLayers == 2
MaxPresses == 2

\* the style of a layer: alignment, opacity (0 = fully transparent),
\* visibility
HitStyles == [ textAlign : {"left", "center", "right"}, opacity : {0, Opaque},
               isVisible : BOOLEAN ]

\* the k-th layer of a document, "Hi" in the default font, at its anchor
HitLayer(k, style) ==
  [ createDefaultTextLayer(k, 90 + 10 * k, 100)
      EXCEPT !.text = "Hi",
             !.width = TextWidth("Hi", "normal", DefaultFontSize, "Arial"),
             !.height = DefaultFontSize,
             !.textAlign = style.textAlign, !.opacity = style.opacity,
             !.isVisible = style.isVisible, !.rotation = RotateStepShift * k,
             !.zIndex = k - 1 ]

HitDocuments ==
  UNION { { [k \in 1..n |-> HitLayer(k, styles[k])] : styles \in [1..n -> HitStyles] }
          : n \in 0..MaxHitLayers }

\* getMousePos: points left of, inside and right of the boxes, and one below
HitPoints == { [x |-> px, y |-> 90] : px \in {70, 85, 100, 115, 130, 150} }
             \cup { [x |-> 100, y |-> 130] }

InitHit ==
  \E layers \in HitDocuments :
    LET design == [ image |-> "imgA", imageWidth |-> 400, imageHeight |-> 300,
                    textLayers |-> layers, selectedLayerId |-> NullId ]
    IN /\ canvasState = design
       /\ history = <<design>>
       /\ historyIndex = 0
       /\ savedDesign = <<design>>
       /\ showGrid = FALSE
       /\ selectedId = NullId
       /\ isDragging = FALSE
       /\ dragOffset = [x |-> 0, y |-> 0]
       /\ editingLayerId = NullId
       /\ editingText = ""
       /\ draggedIndex = NoDrag
       /\ zoom = 10
       /\ fileLoads = <<>>
       /\ imageLoads = {design.image}
       /\ imageElement = NoImage
       /\ exported = NoExport
       /\ storageFull = FALSE
       /\ fontLoads = {}
       /\ lastOp = "reload"
       /\ lastRecs = 0
       /\ nrec = 0
       /\ steps = 0
       /\ samples = <<>>

NextHit ==
  \/ nrec < MaxPresses /\ (\E pos \in HitPoints : MouseDown(pos)) /\ UNCHANGED runVars
  \/ MouseUp /\ UNCHANGED runVars

SpecHit == InitHit /\ [][NextHit]_vars

\* the box of the layer, from its anchor, alignment and measured text,
\* contains the point (p.x, p.y); horizontal comparisons doubled
InBox(layer, p) ==
  LET w == TextWidth(layer.text, layer.fontWeight, layer.fontSize, layer.fontFamily)
      h == layer.fontSize
      left2 == IF layer.textAlign = "left" THEN 2 * layer.x
               ELSE IF layer.textAlign = "center" THEN 2 * layer.x - w
               ELSE 2 * (layer.x - w)
      top == layer.y - h
  IN /\ left2 <= 2 * p.x /\ 2 * p.x <= left2 + 2 * w
     /\ top <= p.y /\ p.y <= top + h

\* the hit test returns the candidate of greatest zIndex, and none exactly
\* when there is no candidate
ReturnsTopOf(layers, candidates, p) ==
  LET hit == findLayerAtPosition(layers, p.x, p.y)
  IN IF candidates = {} THEN hit = <<>>
     ELSE \E k \in candidates :
            /\ hit = <<layers[k]>>
            /\ \A j \in candidates : layers[j].zIndex <= layers[k].zIndex

Unrotated(layers) == [k \in 1..Len(layers) |-> [layers[k] EXCEPT !.rotation = 0]]

\* C17: hit-testing a point returns the layer of greatest zIndex among the
\* layers that are visible, not fully transparent, and whose axis-aligned
\* box contains the point, and none exactly when there is no such layer; an
\* invisible layer is never returned and the rotation of the layers does not
\* affect the result.
C17_HitTopOpaque ==
  LET layers == canvasState.textLayers
  IN \A p \in HitPoints :
       LET hit == findLayerAtPosition(layers, p.x, p.y)
           flat == findLayerAtPosition(Unrotated(layers), p.x, p.y)
       IN /\ ReturnsTopOf(layers, { k \in 1..Len(layers) :
                                     /\ layers[k].isVisible
                                     /\ layers[k].opacity > 0
                                     /\ InBox(layers[k], p) }, p)
          /\ hit # <<>> => hit[1].isVisible
          /\ flat = Unrotated(hit)

\* C17 as the specification states it: the candidates are the visible layers
\* whose box contains the point
C17_HitTopVisible ==
  LET layers == canvasState.textLayers
  IN \A p \in HitPoints :
       ReturnsTopOf(layers, { k \in 1..Len(layers) :
                               layers[k].isVisible /\ InBox(layers[k], p) }, p)

\* a press inside the boxes of two layers, the upper one visible but fully
\* transparent and rotated, has selected the lower one
C17_PressedThroughTransparent ==
  LET layers == canvasState.textLayers
  IN /\ lastOp = "select"
     /\ isDragging
     /\ Len(layers) = 2
     /\ selectedId = layers[1].id
     /\ layers[2].isVisible /\ layers[2].opacity = 0 /\ layers[2].rotation # 0
     /\ InBox(layers[2], [x |-> layers[1].x + dragOffset.x, y |-> layers[1].y + dragOffset.y])

(***************************************************************************)
(* Snapping: one layer, restored by a page load at some position, pressed  *)
(* with the mouse, dragged and nudged with the grid on and off, in runs of *)
(* at most MaxSnapMoves recorded events                                    *)
(***************************************************************************)
MaxSnapMoves == 3

SnapStarts == { [x |-> 110, y |-> 130] }

InitSnap ==
  \E u \in Uploads, at \in SnapStarts :
    LET design == [ image |-> u.image, imageWidth |-> u.width, imageHeight |-> u.height,
                    textLayers |-> <<createDefaultTextLayer(1, at.x, at.y)>>,
                    selectedLayerId |-> NullId ]
    IN /\ canvasState = design
       /\ history = <<design>>
       /\ historyIndex = 0
       /\ savedDesign = <<design>>
       /\ showGrid = FALSE
       /\ selectedId = NullId
       /\ isDragging = FALSE
       /\ dragOffset = [x |-> 0, y |-> 0]
       /\ editingLayerId = NullId
       /\ editingText = ""
       /\ draggedIndex = NoDrag
       /\ zoom = 10
       /\ fileLoads = <<>>
       /\ imageLoads = {design.image}
       /\ imageElement = NoImage
       /\ exported = NoExport
       /\ storageFull = FALSE
       /\ fontLoads = {}
       /\ lastOp = "reload"
       /\ lastRecs = 0
       /\ nrec = 0
       /\ steps = 0
       /\ samples = <<>>

\* getMousePos of a press inside the box of a layer
PressPoints ==
  { [x |-> canvasState.textLayers[k].x + 5, y |-> canvasState.textLayers[k].y - 5]
      : k \in 1..Len(canvasState.textLayers) }

\* getMousePos of a mousemove: some places of the canvas, and the place where
\* the pointer holds the selected layer just where it is
MovePoints == { [x |-> 64, y |-> 82], [x |-> 175, y |-> 140] }

HeldPoints ==
  IF HasLayer(canvasState.textLayers, selectedId)
  THEN LET layer == FindLayer(canvasState.textLayers, selectedId)
       IN { [x |-> layer.x + dragOffset.x, y |-> layer.y + dragOffset.y] }
  ELSE {}

MoreMoves == nrec < MaxSnapMoves

NextSnap ==
  \/ ToggleGrid /\ UNCHANGED runVars
  \/ MoreMoves /\ (\E pos \in PressPoints : MouseDown(pos)) /\ UNCHANGED runVars
  \/ MoreMoves /\ (\E pos \in MovePoints \cup HeldPoints : MouseMove(pos)) /\ UNCHANGED runVars
  \/ MouseUp /\ UNCHANGED runVars
  \/ MoreMoves /\ UNCHANGED runVars
     /\ \E direction \in {"up", "down", "left", "right"}, shiftKey \in BOOLEAN :
          KeyArrow(direction, shiftKey)

SpecSnap == InitSnap /\ [][NextSnap]_vars

\* coordinates around the grid lines, the centers of the images and the
\* edges of the center snap
SnapCoords == { 0, 10, 20, 70, 85, 100, 120, 135, 150, 151, 200, 250 }

\* C18: snapping a position whose coordinates are multiples of the grid size
\* to the grid yields that position; snapping the center of the document to
\* the center yields the center, on either axis alone as well; and the drag
\* pipeline (grid snap when the grid is on, then center snap) applied to a
\* position it has produced returns that position.
C18_SnapIdempotent ==
  LET centerX == canvasState.imageWidth \div 2
      centerY == canvasState.imageHeight \div 2
      center(x, y) == snapToCenter(x, y, canvasState.imageWidth, canvasState.imageHeight)
  IN /\ \A v \in SnapCoords : Rem(v, GridSize) = 0 => snapToGrid(v) = v
     /\ center(centerX, centerY) = [x |-> centerX, y |-> centerY]
     /\ \A v \in SnapCoords : /\ center(centerX, v).x = centerX
                              /\ center(v, centerY).y = centerY
     /\ \A x, y \in SnapCoords :
          LET once == Snapped(x, y)
          IN Snapped(once.x, once.y) = once

\* with the grid on, a drag has put the layer on the center line of the
\* image, off the grid, and a further move of the mouse that holds the layer
\* where it is has left it there
C18_HeldOnCenter ==
  /\ lastOp = "drag"
  /\ showGrid
  /\ Len(history) >= 3
  /\ historyIndex = Len(history) - 1
  /\ canvasState.textLayers = PrevEntry.textLayers
  /\ canvasState.textLayers[1].y = canvasState.imageHeight \div 2
  /\ Rem(canvasState.textLayers[1].y, GridSize) # 0

(***************************************************************************)
(* Positions committed with the grid on                                    *)
(***************************************************************************)
OnGrid(layer) == Rem(layer.x, GridSize) = 0 /\ Rem(layer.y, GridSize) = 0

\* C19: while grid mode is on, every layer position committed by a drag
\* move, an arrow-key nudge or a double-click creation has x and y that are
\* both multiples of 20.
C19_GridAligned ==
  [][ /\ (showGrid /\ lastOp' \in {"drag", "nudge"} /\ lastRecs' > 0)
         => \A k \in 1..Len(canvasState'.textLayers) :
              canvasState'.textLayers[k].id = selectedId
                => OnGrid(canvasState'.textLayers[k])
      /\ (showGrid /\ lastOp' = "dblclickadd")
         => OnGrid(canvasState'.textLayers[Len(canvasState'.textLayers)])
    ]_vars

(***************************************************************************)
(* Arrow keys                                                              *)
(***************************************************************************)
\* the k-th layer, and nothing else of the document, has moved to the snap
\* of its position displaced by the step of the key along the pressed axis
NudgedOnly(k, direction, shiftKey) ==
  LET layer == canvasState.textLayers[k]
      amount == IF shiftKey THEN NudgeStepShift ELSE NudgeStep
      dx == IF direction = "left" THEN -amount ELSE IF direction = "right" THEN amount ELSE 0
      dy == IF direction = "up" THEN -amount ELSE IF direction = "down" THEN amount ELSE 0
      snapped == Snapped(layer.x + dx, layer.y + dy)
  IN canvasState' = [canvasState EXCEPT
                       !.textLayers[k] = [layer EXCEPT !.x = snapped.x, !.y = snapped.y]]

\* C20: an arrow-key press while a layer is selected sets that layer's
\* position to the grid/center snap of its previous position displaced by 10
\* units (50 with Shift) along the pressed axis only; no other layer and no
\* other field of the layer changes.
C20_NudgeMovesSelected ==
  [][ (lastOp' = "nudge" /\ HasSelectedLayer)
        => \E k \in 1..Len(canvasState.textLayers),
              direction \in {"up", "down", "left", "right"}, shiftKey \in BOOLEAN :
             /\ canvasState.textLayers[k].id = canvasState.selectedLayerId
             /\ NudgedOnly(k, direction, shiftKey)
    ]_vars

(***************************************************************************)
(* Rotation shortcuts                                                      *)
(***************************************************************************)
\* the rotation of the k-th layer, and nothing else of the document, has
\* become the given angle
RotatedOnly(k, angle) ==
  canvasState' = [canvasState EXCEPT !.textLayers[k].rotation = angle]

\* C21: the rotate shortcut sets the selected layer's rotation to (old + 15)
\* mod 360, or (old + 45) mod 360 with the modifier, an integer in [0, 360);
\* the reset shortcut sets it to 0; no other field and no other layer changes.
C21_RotateSelected ==
  [][ /\ (lastOp' = "rotate" /\ HasSelectedLayer)
         => \E k \in 1..Len(canvasState.textLayers), step \in {RotateStep, RotateStepShift} :
              /\ canvasState.textLayers[k].id = canvasState.selectedLayerId
              /\ RotatedOnly(k, (canvasState.textLayers[k].rotation + step) % FullTurn)
              /\ canvasState'.textLayers[k].rotation \in 0..(FullTurn - 1)
      /\ (lastOp' = "rotatereset" /\ HasSelectedLayer)
         => \E k \in 1..Len(canvasState.textLayers) :
              /\ canvasState.textLayers[k].id = canvasState.selectedLayerId
              /\ RotatedOnly(k, 0)
    ]_vars

(***************************************************************************)
(* Rendering: the drawing calls of the preview (drawCanvas, Canvas.tsx     *)
(* 45-154) and of the export (handleExport, page.tsx 275-342), in order.   *)
(* Scales are in tenths (10 is 1.0) and every length of a call in tenths   *)
(* of a unit.                                                              *)
(***************************************************************************)
\* save, globalAlpha, font, fillStyle, textAlign, (translate, rotate,)
\* fillText, restore for one layer at the scale s
TextDraw(layer, s) ==
  [ op |-> "text", text |-> layer.text,
    weight |-> IF layer.fontWeight = "bold" THEN "bold" ELSE "normal",
    size |-> layer.fontSize * s, family |-> layer.fontFamily,
    color |-> layer.color, alpha |-> layer.opacity, align |-> layer.textAlign,
    x |-> layer.x * s, y |-> layer.y * s, rotation |-> layer.rotation ]

Drawn(layer) == layer.opacity > 0 /\ layer.isVisible

\* strokeRect of the selection border, Canvas.tsx 109-146
BorderDraw(layer, s) ==
  LET textWidth  == TextWidth(layer.text, layer.fontWeight, layer.fontSize, layer.fontFamily) * s
      textHeight == layer.fontSize * s
      maxDimension == Max(textWidth, textHeight)
      width  == IF layer.rotation # 0 THEN maxDimension + 200 ELSE textWidth + 200
      height == IF layer.rotation # 0 THEN maxDimension + 200 ELSE textHeight + 200
      \* doubled, so that the halves stay integers
      x2 == IF layer.rotation # 0 THEN 2 * layer.x * s - width
            ELSE IF layer.textAlign = "left" THEN 2 * layer.x * s - 200
            ELSE IF layer.textAlign = "center" THEN 2 * layer.x * s - textWidth - 200
            ELSE 2 * layer.x * s - 2 * textWidth - 200
      y2 == IF layer.rotation # 0 THEN 2 * layer.y * s - height
            ELSE 2 * layer.y * s - 2 * textHeight - 200
  IN [ op |-> "border", x2 |-> x2, y2 |-> y2, width |-> width, height |-> height ]

\* the forEach of drawCanvas over the sorted layers
RECURSIVE PreviewLayers(_, _, _)
PreviewLayers(sortedLayers, s, selected) ==
  IF sortedLayers = <<>> THEN <<>>
  ELSE LET layer == Head(sortedLayers)
       IN (IF Drawn(layer)
           THEN <<TextDraw(layer, s)>>
                \o (IF selected = layer.id THEN <<BorderDraw(layer, s)>> ELSE <<>>)
           ELSE <<>>)
          \o PreviewLayers(Tail(sortedLayers), s, selected)

\* the forEach of handleExport over the sorted layers
RECURSIVE ExportLayers(_, _)
ExportLayers(sortedLayers, s) ==
  IF sortedLayers = <<>> THEN <<>>
  ELSE (IF Drawn(Head(sortedLayers)) THEN <<TextDraw(Head(sortedLayers), s)>> ELSE <<>>)
       \o ExportLayers(Tail(sortedLayers), s)

\* the grid lines of the preview, Canvas.tsx 58-79: x = 0, 20 zoom, ... up to
\* the width of the canvas, then the same for y
GridLines(width, height, s) ==
  [k \in 1..((width \div GridSize) + 1) |->
     [op |-> "gridline", axis |-> "x", at |-> (k - 1) * GridSize * s]]
  \o [k \in 1..((height \div GridSize) + 1) |->
        [op |-> "gridline", axis |-> "y", at |-> (k - 1) * GridSize * s]]

\* drawCanvas for the props and state of a render; element is imageElement
drawCanvas(state, element, s, grid, selected) ==
  IF state.image = NoImage \/ element = NoImage THEN <<>>
  ELSE << [op |-> "clear"],
          [op |-> "image", image |-> element,
           width |-> state.imageWidth * s, height |-> state.imageHeight * s] >>
       \o (IF grid THEN GridLines(state.imageWidth, state.imageHeight, s) ELSE <<>>)
       \o PreviewLayers(SortByZ(state.textLayers), s, selected)

\* the drawing of img.onload in handleExport: the image is loaded anew from
\* canvasState.image
exportDraws(state, s) ==
  << [op |-> "fill", color |-> "#ffffff",
      width |-> state.imageWidth * s, height |-> state.imageHeight * s],
     [op |-> "image", image |-> state.image,
      width |-> state.imageWidth * s, height |-> state.imageHeight * s] >>
  \o ExportLayers(SortByZ(state.textLayers), s)

\* the calls of a sequence with one of the given ops
RECURSIVE OnlyOps(_, _)
OnlyOps(draws, ops) ==
  IF draws = <<>> THEN <<>>
  ELSE (IF Head(draws).op \in ops THEN <<Head(draws)>> ELSE <<>>) \o OnlyOps(Tail(draws), ops)

(***************************************************************************)
(* Image loads: files handed to ImageUpload, whose reads and decodes run   *)
(* side by side and finish in any order (part_000 19-83), and the image    *)
(* elements the canvas loads for the documents it is shown (Canvas.tsx     *)
(* 33-42), in runs of at most MaxFileLoads files                           *)
(***************************************************************************)
MaxFileLoads == 2

\* processImage(file), part_000 19-83, up to reader.readAsDataURL: nothing
\* keeps a second file from being handed over while the first is loading
StartUpload(u) ==
  /\ PointerFree
  /\ fileLoads' = Append(fileLoads, [file |-> u, done |-> FALSE])
  /\ lastOp' = "startload"
  /\ lastRecs' = 0
  /\ UNCHANGED <<progVars, showGrid, canvasVars, draggedIndex, savedDesign, nrec,
                 zoom, imageLoads, imageElement, exported, storageFull, fontLoads>>

\* img.onload of the k-th file, part_000 38-66
DecodeDone(k) ==
  /\ k \in 1..Len(fileLoads)
  /\ ~fileLoads[k].done
  /\ UploadImage(fileLoads[k].file)
  /\ fileLoads' = [fileLoads EXCEPT ![k].done = TRUE]

\* img.onload of an element the canvas is loading, Canvas.tsx 37-39
ImageDecoded(image) ==
  /\ image \in imageLoads
  /\ imageElement' = image
  /\ imageLoads' = imageLoads \ {image}
  /\ lastOp' = "decoded"
  /\ lastRecs' = 0
  /\ UNCHANGED <<progVars, showGrid, canvasVars, draggedIndex, savedDesign, nrec,
                 zoom, fileLoads, exported, storageFull, fontLoads>>

NextLoad ==
  \/ Len(fileLoads) < MaxFileLoads /\ (\E u \in Uploads : StartUpload(u)) /\ UNCHANGED runVars
  \/ (\E k \in 1..Len(fileLoads) : DecodeDone(k)) /\ UNCHANGED runVars
  \/ (\E image \in imageLoads : ImageDecoded(image)) /\ UNCHANGED runVars
  \/ canvasState.textLayers = <<>> /\ (\E newId \in Ids : AddText(newId)) /\ UNCHANGED runVars
  \/ ToggleGrid /\ UNCHANGED runVars
  \/ nrec < MaxPresses /\ (\E pos \in PressPoints : MouseDown(pos)) /\ UNCHANGED runVars

SpecLoad == Init /\ [][NextLoad]_vars

\* every load that was started has finished
LoadsSettled ==
  /\ fileLoads # <<>>
  /\ \A k \in 1..Len(fileLoads) : fileLoads[k].done
  /\ imageLoads = {}

\* C30: if a second image load is started before the first one completes,
\* then in whichever order the two decode callbacks complete the document's
\* image and dimensions, and the image element the preview paints, end up
\* being those of the load started last.
C30_LastLoadWins ==
  LoadsSettled =>
    LET last == fileLoads[Len(fileLoads)].file
    IN /\ canvasState.image = last.image
       /\ canvasState.imageWidth = last.width
       /\ canvasState.imageHeight = last.height
       /\ imageElement = last.image

\* C22: for the same document and the same scale, the preview and the export
\* paint the background and then the same sequence of text draws (the layers
\* that are visible with opacity > 0, in ascending zIndex order, each with
\* the same font, color, alpha, alignment, anchor and rotation), and the
\* export never contains a grid line or a selection border.
C22_PreviewMatchesExport ==
  LET preview == drawCanvas(canvasState, imageElement, zoom, showGrid, selectedId)
      export  == exportDraws(canvasState, zoom)
  IN preview # <<>> =>
       /\ OnlyOps(preview, {"image", "text"}) = OnlyOps(export, {"image", "text"})
       /\ OnlyOps(export, {"gridline", "border"}) = <<>>

(***************************************************************************)
(* Export, page.tsx 275-363 and ExportPanel.tsx 22-36                      *)
(***************************************************************************)
\* a handleExport that does not look whether an image is loaded
exportAnyway(state, options, loads) ==
  [ status |-> "resolved", error |-> "",
    artifact |-> << [ format |-> options.format, quality |-> options.quality,
                      draws |-> exportDraws(state, options.scale) ] >> ]

\* handleExport(options), lines 275-342: the promise it returns, rejected
\* with an error or resolved with the data URL of the drawing; loads tells
\* whether the image loads into the offscreen surface (img.onload) or not
\* (img.onerror)
handleExport(state, options, loads) ==
  IF state.image = NoImage
  THEN [status |-> "rejected", error |-> "Failed to create canvas context", artifact |-> <<>>]
  ELSE IF ~loads
  THEN [status |-> "rejected", error |-> "Failed to load image", artifact |-> <<>>]
  ELSE [ status |-> "resolved", error |-> "",
         artifact |-> << [ format |-> options.format, quality |-> options.quality,
                           draws |-> exportDraws(state, options.scale) ] >> ]

\* format, quality (tenths) and scale (tenths) of ExportOptions
ExportChoices == { [format |-> "png", quality |-> 10, scale |-> 10],
                   [format |-> "jpg", quality |-> 8, scale |-> 20] }

\* what an export leaves alone: everything but its outcome
ExportFrame ==
  UNCHANGED <<progVars, showGrid, canvasVars, draggedIndex, savedDesign, nrec,
              zoom, loadVars, storageFull, fontLoads>>

\* onExport(options): the handler Home hands to the export panel, called
\* whatever the document holds
Export(options, loads) ==
  /\ exported' = <<handleExport(canvasState, options, loads)>>
  /\ lastOp' = "export"
  /\ lastRecs' = 0
  /\ ExportFrame

\* handleQuickExport, lines 345-363: nothing without an image
QuickExport(loads) ==
  /\ exported' = IF canvasState.image = NoImage THEN exported
                 ELSE <<handleExport(canvasState,
                                     [format |-> "png", quality |-> 10, scale |-> 10], loads)>>
  /\ lastOp' = "quickexport"
  /\ lastRecs' = 0
  /\ ExportFrame

\* handleExport of the export panel, ExportPanel.tsx 22-36
PanelExport(options, loads) ==
  /\ exported' = IF canvasState.image = NoImage THEN exported
                 ELSE <<handleExport(canvasState, options, loads)>>
  /\ lastOp' = "panelexport"
  /\ lastRecs' = 0
  /\ ExportFrame

NextExport ==
  \/ canvasState.image = NoImage /\ (\E u \in Uploads : UploadImage(u)) /\ UNCHANGED <<fileLoads, runVars>>
  \/ Room /\ (\E newId \in Ids : AddText(newId)) /\ UNCHANGED runVars
  \/ ResetDesign /\ UNCHANGED runVars
  \/ (\E options \in ExportChoices, loads \in BOOLEAN : Export(options, loads)) /\ UNCHANGED runVars
  \/ (\E loads \in BOOLEAN : QuickExport(loads)) /\ UNCHANGED runVars
  \/ (\E options \in ExportChoices, loads \in BOOLEAN : PanelExport(options, loads))
     /\ UNCHANGED runVars

SpecExport == Init /\ [][NextExport]_vars

ExportOps == {"export", "quickexport", "panelexport"}

MaxSamples == 3
MaxDragRecs == 5

NextDrag ==
  \/ ~isDragging /\ ToggleGrid /\ UNCHANGED runVars
  \/ /\ ~isDragging
     /\ nrec < MaxDragRecs
     /\ \E pos \in PressPoints : MouseDown(pos)
     /\ samples' = <<>>
     /\ UNCHANGED steps
  \/ /\ Len(samples) < MaxSamples
     /\ nrec < MaxDragRecs
     /\ \E pos \in MovePoints : MouseMove(pos) /\ samples' = Append(samples, pos)
     /\ UNCHANGED steps
  \/ MouseUp /\ UNCHANGED runVars

SpecDrag == InitSnap /\ [][NextDrag]_vars

\* the position handleMouseMove computes from the sample pos
SampleTarget(pos) == Snapped(pos.x - dragOffset.x, pos.y - dragOffset.y)

\* C24: when a drag gesture ends with the release of the pointer, the dragged
\* layer is in the live document at the snapped position computed from the
\* last mousemove sample of the gesture, no earlier sample having been
\* applied after it, and the live document is the snapshot at the history
\* cursor.
C24_ReleaseKeepsLastSample ==
  (lastOp = "mouseup" /\ samples # <<>>) =>
     LET layer == FindLayer(canvasState.textLayers, selectedId)
         target == SampleTarget(samples[Len(samples)])
     IN /\ layer.x = target.x
        /\ layer.y = target.y
        /\ canvasState = HistoryAt(history, historyIndex)

\* a gesture of several samples has ended, and the layer is where the last
\* sample puts it, which is not where the first put it
C24_ReleasedAfterSamples ==
  /\ lastOp = "mouseup"
  /\ Len(samples) >= 2
  /\ SampleTarget(samples[1]) # SampleTarget(samples[Len(samples)])
  /\ FindLayer(canvasState.textLayers, selectedId).x = SampleTarget(samples[Len(samples)]).x

ClickAnchor(pos) ==
  [ x |-> IF showGrid THEN snapToGrid(pos.x) ELSE pos.x,
    y |-> IF showGrid THEN snapToGrid(pos.y) ELSE pos.y ]

\* the step adds one default layer anchored at the point pos, which hits no
\* layer, selects it and opens the text edit for it
AddedAt(pos) ==
  LET old == canvasState.textLayers
      new == canvasState'.textLayers
      added == new[Len(new)]
      anchor == ClickAnchor(pos)
  IN /\ findLayerAtPosition(old, pos.x, pos.y) = <<>>
     /\ Len(new) = Len(old) + 1
     /\ SubSeq(new, 1, Len(old)) = old
     /\ added = [createDefaultTextLayer(added.id, anchor.x, anchor.y)
                   EXCEPT !.zIndex = getNextZIndex(old)]
     /\ canvasState' = [canvasState EXCEPT !.textLayers = new,
                                           !.selectedLayerId = added.id]
     /\ FindIndex(new, canvasState'.selectedLayerId) + 1 = Len(new)
     /\ editingLayerId' = added.id
     /\ FindIndex(new, editingLayerId') + 1 = Len(new)
     /\ editingText' = added.text

\* the step opens the text edit for the layer the point pos hits, and adds
\* no layer
EditOpenedAt(pos) ==
  LET hit == findLayerAtPosition(canvasState.textLayers, pos.x, pos.y)
  IN /\ hit # <<>>
     /\ canvasState'.textLayers = canvasState.textLayers
     /\ editingLayerId' = hit[1].id
     /\ FindLayer(canvasState.textLayers, editingLayerId') = hit[1]
     /\ editingText' = hit[1].text

\* C26: with an image loaded, a double click on a point that hits no layer
\* adds exactly one default layer anchored at that point (each coordinate
\* rounded to the nearest multiple of 20 when the grid is on), makes it the
\* selected layer of the document and opens the text edit for it; a double
\* click on a point that hits a layer opens the text edit for that layer and
\* adds no layer.
C26_DoubleClick ==
  [][ /\ lastOp' = "dblclickadd" =>
           (canvasState.image # NoImage /\ \E pos \in Points : AddedAt(pos))
      /\ lastOp' = "editopen" => \E pos \in Points : EditOpenedAt(pos)
    ]_vars

(***************************************************************************)
(* Persistence: the document is changed with the toolbar and the position  *)
(* fields of the properties panel, the page is reloaded, the design reset, *)
(* and localStorage fills up and is freed again, until MaxSaveRecs         *)
(* snapshots have been recorded in succession                              *)
(***************************************************************************)
MaxSaveRecs == 2

\* what the user leaves in a position field: nothing, or digits
PositionTexts == { "", "60" }

\* parseInt(e.target.value)
parseInt(text) ==
  CASE text = "60" -> 60
    [] OTHER -> NaN

\* onChange of the X and Y position fields, TextProperties.tsx 551-566
ChangePosition(axis, text) ==
  LET updates == IF axis = "x" THEN [x |-> parseInt(text)] ELSE [y |-> parseInt(text)]
  IN /\ PointerFree
     /\ HasSelectedLayer
     /\ Commit("position", handleUpdateLayer(Cur, historyIndex, updates))
     /\ UNCHANGED <<moreVars, showGrid, canvasVars, draggedIndex>>

\* the quota of localStorage is reached, or data is removed from it
StorageChange ==
  /\ storageFull' = ~storageFull
  /\ lastOp' = "storage"
  /\ lastRecs' = 0
  /\ UNCHANGED <<progVars, showGrid, canvasVars, draggedIndex, savedDesign, nrec,
                 zoom, loadVars, exported, fontLoads>>

NextSave ==
  \/ (\E u \in Uploads : UploadImage(u)) /\ UNCHANGED <<fileLoads, runVars>>
  \/ nrec < MaxSaveRecs /\ canvasState.textLayers = <<>>
     /\ (\E newId \in Ids : AddText(newId)) /\ UNCHANGED runVars
  \/ nrec < MaxSaveRecs
     /\ (\E axis \in {"x", "y"}, text \in PositionTexts : ChangePosition(axis, text))
     /\ UNCHANGED runVars
  \/ ResetDesign /\ UNCHANGED runVars
  \/ PageReload /\ UNCHANGED runVars
  \/ StorageChange /\ UNCHANGED runVars

SpecSave == Init /\ [][NextSave]_vars

\* C27: the saved design mirrors the document: after every change of the
\* document made while an image is loaded, the saved design equals the live
\* document field for field; a start of the application with a saved design
\* restores exactly the document that was saved, with the history holding it
\* as its sole entry at cursor 0; after a reset the saved design is absent,
\* and it stays absent until an image is loaded; and a save that fails
\* changes neither the document nor what a later mutation does.
C27_SavedMirrorsDocument ==
  [][ /\ (canvasState' # canvasState /\ canvasState'.image # NoImage /\ ~storageFull)
           => (savedDesign' # NoDesign /\ parse(SavedText') = canvasState')
      /\ (lastOp' = "reload" /\ savedDesign # NoDesign)
           => /\ SavedText = stringify(canvasState) => canvasState' = canvasState
              /\ history' = <<canvasState'>>
              /\ historyIndex' = 0
      /\ lastOp' = "reset" => savedDesign' = NoDesign
      /\ (savedDesign = NoDesign /\ canvasState'.image = NoImage) => savedDesign' = NoDesign
      /\ (storageFull /\ lastRecs' > 0)
           => (savedDesign' = savedDesign /\ canvasState' = HistoryAt(history', historyIndex'))
    ]_vars

(***************************************************************************)
(* Zoom, page.tsx 39, 410-420 and 456-458, in tenths                       *)
(***************************************************************************)
MinZoom == 1
MaxZoom == 30
ZoomStep == 1
MaxZoomRecs == 3

ZoomFrame ==
  /\ lastRecs' = 0
  /\ UNCHANGED <<progVars, showGrid, canvasVars, draggedIndex, savedDesign, nrec,
                 loadVars, exported, storageFull, fontLoads>>

\* '+' and '=' (lines 411-413) and onZoomIn (line 457)
ZoomIn ==
  /\ zoom' = Min(MaxZoom, zoom + ZoomStep)
  /\ lastOp' = "zoomin"
  /\ ZoomFrame

\* '-' (lines 414-416) and onZoomOut (line 458)
ZoomOut ==
  /\ zoom' = Max(MinZoom, zoom - ZoomStep)
  /\ lastOp' = "zoomout"
  /\ ZoomFrame

\* onResetZoom (line 456)
ZoomReset ==
  /\ zoom' = 10
  /\ lastOp' = "zoomreset"
  /\ ZoomFrame

NextZoom ==
  \/ canvasState.image = NoImage /\ (\E u \in Uploads : UploadImage(u))
     /\ UNCHANGED <<fileLoads, runVars>>
  \/ canvasState.textLayers = <<>> /\ (\E newId \in Ids : AddText(newId)) /\ UNCHANGED runVars
  \/ nrec < MaxZoomRecs /\ (\E pos \in PressPoints : MouseDown(pos)) /\ UNCHANGED runVars
  \/ MouseUp /\ UNCHANGED runVars
  \/ ZoomIn /\ UNCHANGED runVars
  \/ ZoomOut /\ UNCHANGED runVars
  \/ ZoomReset /\ UNCHANGED runVars
  \/ nrec < MaxZoomRecs /\ KeyZero /\ UNCHANGED runVars

SpecZoom == Init /\ [][NextZoom]_vars

\* the events that come from a zoom input; "zoom" and "rotatereset" are the
\* key '0' without and with a layer selected on the canvas
ZoomOps == {"zoomin", "zoomout", "zoomreset", "zoom", "rotatereset"}

\* C28: the zoom inputs (the keys +, - and 0 and the toolbar's zoom buttons)
\* keep the zoom within 10% and 300%, 0 resets it to 100%, and they change
\* only the zoom: the document, the history entries and the cursor are
\* unchanged by any zoom input, whether or not a layer is selected.
C28_ZoomOnly ==
  [][ lastOp' \in ZoomOps =>
        /\ zoom' \in MinZoom..MaxZoom
        /\ lastOp' \in {"zoomreset", "zoom", "rotatereset"} => zoom' = 10
        /\ UNCHANGED <<canvasState, history, historyIndex>>
    ]_vars

\* the multiples of the grid size a coordinate of the canvas can be rounded to
GridLinesAt == { GridSize * k : k \in -10..30 }

\* g is what the grid stage makes of the coordinate v: a nearest multiple of
\* the grid size with the grid on, v itself with the grid off
GridStage(v, g) ==
  IF showGrid THEN g \in GridLinesAt /\ 2 * Abs(g - v) <= GridSize ELSE g = v

\* the center stage: the center of the axis exactly when g is strictly less
\* than the threshold away from it
CenterStage(g, center) == IF Abs(g - center) < SnapThreshold THEN center ELSE g

ShortcutOps == {"undo", "redo", "nudge", "rotate", "rotatereset", "delete", "duplicate",
                "select", "drag"}

\* C31: while a modal text edit is open, the undo, redo, nudge, rotate,
\* delete and duplicate shortcuts and the presses of the pointer on the
\* canvas have no effect: document, history entries and cursor stay as they
\* are until the edit is saved or cancelled.
C31_EditSuppressesShortcuts ==
  [][ (editingLayerId # NullId /\ lastOp' \in ShortcutOps)
        => UNCHANGED <<canvasState, history, historyIndex>> ]_vars

\* the layers of list after that differ from the layer at their position in before
ChangedAt(before, after) ==
  { i \in DOMAIN before : i \notin DOMAIN after \/ after[i] # before[i] }

\* C32: committing a text edit with new text t sets the edited layer's text
\* to t and its width and height to the measurement of t in the layer's font,
\* for every string t of the data model, the empty string included, changes
\* no other layer and leaves the text-edit mode; cancelling a text edit
\* leaves the document and the history unchanged.
C32_TextEditCommit ==
  [][ /\ (lastOp' = "editsave" /\ editingLayerId # NullId
            /\ HasLayer(canvasState.textLayers, editingLayerId))
        => LET before == canvasState.textLayers
               after  == canvasState'.textLayers
               k      == FindIndex(before, editingLayerId) + 1
           IN /\ Len(after) = Len(before)
              /\ after[k] = [before[k] EXCEPT
                   !.text   = editingText,
                   !.width  = TextWidth(editingText, before[k].fontWeight,
                                        before[k].fontSize, before[k].fontFamily),
                   !.height = before[k].fontSize]
              /\ ChangedAt(before, after) \subseteq {k}
              /\ editingLayerId' = NullId
      /\ (lastOp' = "editcancel" /\ editingLayerId # NullId)
        => UNCHANGED <<canvasState, history, historyIndex>> ]_vars

(***************************************************************************)
(* normalizeZIndexes as a function of the layer list, utils.ts 101-108     *)
(***************************************************************************)
MaxNormLayers == 3
MaxNormZ == 3

\* the zIndex values of the input lists: with gaps, with ties, out of order
NormZValues == 0..MaxNormZ

\* the layer lists of at most MaxNormLayers layers, the layer at position k
\* with id k and any zIndex of NormZValues
NormLists ==
  UNION { { [k \in 1..n |-> [createDefaultTextLayer(k, 10 * k, 20) EXCEPT !.zIndex = z[k]]]
            : z \in [1..n -> NormZValues] } : n \in 0..MaxNormLayers }

InitNorm ==
  \E layers \in NormLists :
    LET design == [ image |-> "imgA", imageWidth |-> 400, imageHeight |-> 300,
                    textLayers |-> layers, selectedLayerId |-> NullId ]
    IN /\ canvasState = design
       /\ history = <<design>>
       /\ historyIndex = 0
       /\ savedDesign = <<design>>
       /\ showGrid = FALSE
       /\ selectedId = NullId
       /\ isDragging = FALSE
       /\ dragOffset = [x |-> 0, y |-> 0]
       /\ editingLayerId = NullId
       /\ editingText = ""
       /\ draggedIndex = NoDrag
       /\ zoom = 10
       /\ fileLoads = <<>>
       /\ imageLoads = {design.image}
       /\ imageElement = NoImage
       /\ exported = NoExport
       /\ storageFull = FALSE
       /\ fontLoads = {}
       /\ lastOp = "reload"
       /\ lastRecs = 0
       /\ nrec = 0
       /\ steps = 0
       /\ samples = <<>>

\* one application of normalizeZIndexes to the document's layer list
Normalize ==
  /\ canvasState' = [canvasState EXCEPT !.textLayers = normalizeZIndexes(@)]
  /\ lastOp' = "normalize"
  /\ UNCHANGED <<history, historyIndex, showGrid, canvasVars, draggedIndex, moreVars,
                 savedDesign, lastRecs, nrec, runVars>>

NextNorm == Normalize

SpecNorm == InitNorm /\ [][NextNorm]_vars

\* the position in list of the layer with the id
PositionOf(list, id) == CHOOSE k \in DOMAIN list : list[k].id = id

\* C33: renormalization is idempotent and keeps the order: normalizing a
\* normalized list changes nothing, the result holds the same layers with the
\* zIndex values 0..N-1, two layers of different prior zIndex keep their
\* stacking order, and layers of equal prior zIndex stand in the order of
\* their positions in the input.
C33_NormalizeIdempotentStable ==
  [][ lastOp' = "normalize" =>
        LET L == canvasState.textLayers
            R == canvasState'.textLayers
        IN /\ normalizeZIndexes(R) = R
           /\ Len(R) = Len(L)
           /\ \A k \in DOMAIN R : R[k].zIndex = k - 1
           /\ \A i \in DOMAIN L : \E k \in DOMAIN R : R[k] = [L[i] EXCEPT !.zIndex = k - 1]
           /\ \A i, j \in DOMAIN L :
                (\/ L[i].zIndex < L[j].zIndex
                 \/ (L[i].zIndex = L[j].zIndex /\ i < j))
                  => PositionOf(R, L[i].id) < PositionOf(R, L[j].id) ]_vars

\* a normalization has moved the last of three layers to the bottom and has
\* left the other two, of equal zIndex, in their order
C33_TieKeptInOrder ==
  /\ lastOp = "normalize"
  /\ Len(canvasState.textLayers) = 3
  /\ [k \in 1..3 |-> canvasState.textLayers[k].id] = <<3, 1, 2>>
  /\ history[1].textLayers[1].zIndex = history[1].textLayers[2].zIndex

(***************************************************************************)
(* reorderLayers as a function of list and indexes, utils.ts 89-99         *)
(***************************************************************************)
MaxReorders == 2

\* the indexes passed: inside 0..N-1, negative, and beyond the end
ReorderIndexes == (-1)..(MaxNormLayers + 1)

\* one call of reorderLayers on the document's layer list
Reorder(fromIndex, toIndex) ==
  /\ nrec < MaxReorders
  /\ nrec' = nrec + 1
  /\ canvasState' = [canvasState EXCEPT !.textLayers = reorderLayers(@, fromIndex, toIndex)]
  /\ lastOp' = "reorderlayers"
  /\ UNCHANGED <<history, historyIndex, showGrid, canvasVars, draggedIndex, moreVars,
                 savedDesign, lastRecs, runVars>>

NextReorder == \E fromIndex, toIndex \in ReorderIndexes : Reorder(fromIndex, toIndex)

SpecReorder == InitNorm /\ [][NextReorder]_vars

\* every entry of the list is a layer: it has an id
AllLayers(list) == \A k \in DOMAIN list : "id" \in DOMAIN list[k]

\* C34: reordering is total on invalid input: called with a from or to index
\* outside 0..N-1, reorderLayers ignores or clamps it, so that the result
\* holds exactly the input layers (same ids, same count, none missing, none
\* extra, none without id) with the zIndex values 0..N-1.
C34_ReorderTotal ==
  [][ (lastOp' = "reorderlayers" /\ AllLayers(canvasState.textLayers)) =>
        LET L == canvasState.textLayers
            R == canvasState'.textLayers
        IN /\ Len(R) = Len(L)
           /\ AllLayers(R)
           /\ \A k \in DOMAIN R : R[k].zIndex = k - 1
           /\ \A i \in DOMAIN L : \E k \in DOMAIN R : R[k].id = L[i].id ]_vars

(***************************************************************************)
(* The live document and the history cursor, page.tsx 112-167              *)
(***************************************************************************)
\* C35: whenever the history is non-empty the live document is the snapshot
\* at the history cursor: every committed mutation is present as an entry,
\* and no sequence of mutations, undos and redos leaves the live document
\* different from the entry the cursor designates.
C35_LiveIsCursorEntry ==
  history # <<>> =>
    /\ historyIndex + 1 \in DOMAIN history
    /\ canvasState = history[historyIndex + 1]

(***************************************************************************)
(* The two selections, Canvas.tsx 24 and page.tsx 185-194                  *)
(***************************************************************************)
\* C36: the canvas's own interaction selection, the layer that nudge, rotate
\* and drag act on and that gets the selection border, is the document's
\* selectedLayerId in every reachable state, also after a selection in the
\* layers panel, an add from the toolbar, the deletion of the selected layer,
\* undo, redo, image load and reset.
C36_SelectionsAgree ==
  selectedId = canvasState.selectedLayerId

(***************************************************************************)
(* The font-family change, TextProperties.tsx 53-77 and fonts.ts 60-81     *)
(***************************************************************************)
MaxFontLoads == 2
MaxFontRecs == 3

\* families that are not system fonts: loadFont waits for document.fonts.load
Fonts == { "Roboto", "Lato" }

\* a design of two layers restored at mount, one of them selected
InitFont ==
  \E selected \in {1, 2} :
    LET layerA == [createDefaultTextLayer(1, 40, 60) EXCEPT !.text = "Hi"]
        layerB == [createDefaultTextLayer(2, 80, 120) EXCEPT !.zIndex = 1, !.fontSize = 48]
        design == [ image |-> "imgA", imageWidth |-> 400, imageHeight |-> 300,
                    textLayers |-> <<layerA, layerB>>, selectedLayerId |-> selected ]
    IN /\ canvasState = design
       /\ history = <<design>>
       /\ historyIndex = 0
       /\ savedDesign = <<design>>
       /\ showGrid = FALSE
       /\ selectedId = NullId
       /\ isDragging = FALSE
       /\ dragOffset = [x |-> 0, y |-> 0]
       /\ editingLayerId = NullId
       /\ editingText = ""
       /\ draggedIndex = NoDrag
       /\ zoom = 10
       /\ fileLoads = <<>>
       /\ imageLoads = {design.image}
       /\ imageElement = NoImage
       /\ exported = NoExport
       /\ storageFull = FALSE
       /\ fontLoads = {}
       /\ lastOp = "reload"
       /\ lastRecs = 0
       /\ nrec = 0
       /\ steps = 0
       /\ samples = <<>>

\* handleFontChange(fontFamily) up to its await, line 55: the call of
\* loadFont is pending, with the props of the render that the handler closed
\* over (selectedLayer, and onUpdateLayer with its historyIndex)
RequestFont(fontFamily) ==
  /\ PointerFree
  /\ HasSelectedLayer
  /\ Cardinality(fontLoads) < MaxFontLoads
  /\ fontLoads' = fontLoads \cup
       { [ fontFamily |-> fontFamily, selectedLayer |-> selectedLayer,
           historyIndex |-> historyIndex ] }
  /\ lastOp' = "fontrequest"
  /\ lastRecs' = 0
  /\ UNCHANGED <<progVars, showGrid, canvasVars, draggedIndex, savedDesign, nrec,
                 zoom, loadVars, exported, storageFull, runVars>>

\* handleFontChange after the await, lines 56-71. loadFont resolves whether
\* document.fonts.load succeeds or fails (fonts.ts 71-76), so both outcomes
\* continue with the two onUpdateLayer calls
FontLoaded(load, loaded) ==
  LET st1 == handleUpdateLayer(Cur, load.historyIndex, [fontFamily |-> load.fontFamily])
      st2 == handleUpdateLayer(st1, load.historyIndex,
               [ fontFamily |-> load.fontFamily,
                 width  |-> TextWidth(load.selectedLayer.text, load.selectedLayer.fontWeight,
                                      load.selectedLayer.fontSize, load.fontFamily),
                 height |-> load.selectedLayer.fontSize ])
  IN /\ load \in fontLoads
     /\ fontLoads' = fontLoads \ {load}
     /\ Commit(IF loaded THEN "font" ELSE "fontfailed", st2)
     /\ UNCHANGED <<zoom, loadVars, exported, storageFull, showGrid, canvasVars,
                    draggedIndex, runVars>>

NextFont ==
  \/ nrec < MaxFontRecs /\ (\E fontFamily \in Fonts : RequestFont(fontFamily))
  \/ nrec < MaxFontRecs /\ (\E load \in fontLoads, loaded \in BOOLEAN : FontLoaded(load, loaded))
  \/ nrec < MaxFontRecs /\ (\E id \in LayerIds : PanelSelect(id)) /\ UNCHANGED runVars
  \/ nrec < MaxFontRecs /\ (\E id \in LayerIds : PanelDelete(id)) /\ UNCHANGED runVars

SpecFont == InitFont /\ [][NextFont]_vars

\* the font load that the step completes
CompletedLoad == CHOOSE load \in fontLoads : load \notin fontLoads'

\* C37: a font-family change requested while layer A is selected is applied
\* to layer A and to no other layer, even if the selection changes to another
\* layer B or A is deleted while the font load is pending; a failed font load
\* still applies the family.
C37_FontAppliedToRequester ==
  [][ lastOp' \in {"font", "fontfailed"} =>
        LET before == canvasState.textLayers
            after  == canvasState'.textLayers
            A      == CompletedLoad.selectedLayer.id
        IN /\ Len(after) = Len(before)
           /\ \A k \in DOMAIN before :
                IF before[k].id = A
                THEN after[k].fontFamily = CompletedLoad.fontFamily
                ELSE after[k] = before[k] ]_vars

(***************************************************************************)
(* The visibility toggles: part_001 66-71, LayersPanel.tsx 59-64 and       *)
(* TextProperties.tsx 162-176                                              *)
(***************************************************************************)
MaxVisRecs == 2

\* opacities of the restored layers, in tenths: 0, one half, 1
Opacities == { 0, 5, Opaque }

\* handleToggleVisibility of part_001, lines 66-69: the list handed to
\* onUpdateLayers
handleToggleVisibility(layers, layerId) ==
  [k \in DOMAIN layers |->
     IF layers[k].id = layerId THEN [layers[k] EXCEPT !.isVisible = ~@] ELSE layers[k]]

\* handleToggleVisibility of components/LayersPanel.tsx, lines 59-62
handleToggleVisibilityByOpacity(layers, layerId) ==
  [k \in DOMAIN layers |->
     IF layers[k].id = layerId
     THEN [layers[k] EXCEPT !.opacity = IF @ > 0 THEN 0 ELSE Opaque]
     ELSE layers[k]]

\* a design of two layers restored at mount, one of them selected
InitVis ==
  \E opacity \in Opacities, isVisible \in BOOLEAN, selected \in {1, 2} :
    LET layerA == [createDefaultTextLayer(1, 40, 60) EXCEPT
                     !.opacity = opacity, !.isVisible = isVisible]
        layerB == [createDefaultTextLayer(2, 80, 120) EXCEPT !.zIndex = 1]
        design == [ image |-> "imgA", imageWidth |-> 400, imageHeight |-> 300,
                    textLayers |-> <<layerA, layerB>>, selectedLayerId |-> selected ]
    IN /\ canvasState = design
       /\ history = <<design>>
       /\ historyIndex = 0
       /\ savedDesign = <<design>>
       /\ showGrid = FALSE
       /\ selectedId = NullId
       /\ isDragging = FALSE
       /\ dragOffset = [x |-> 0, y |-> 0]
       /\ editingLayerId = NullId
       /\ editingText = ""
       /\ draggedIndex = NoDrag
       /\ zoom = 10
       /\ fileLoads = <<>>
       /\ imageLoads = {design.image}
       /\ imageElement = NoImage
       /\ exported = NoExport
       /\ storageFull = FALSE
       /\ fontLoads = {}
       /\ lastOp = "reload"
       /\ lastRecs = 0
       /\ nrec = 0
       /\ steps = 0
       /\ samples = <<>>

\* the eye button of a row of the layers panel, part_001 176-192
ToggleVisibility(id) ==
  /\ PointerFree
  /\ id \in LayerIds
  /\ Commit("togglevisible",
            onUpdateLayers(Cur, historyIndex,
                           handleToggleVisibility(canvasState.textLayers, id)))
  /\ UNCHANGED <<moreVars, showGrid, canvasVars, draggedIndex>>

\* the eye button of a row of components/LayersPanel.tsx
ToggleVisibilityByOpacity(id) ==
  /\ PointerFree
  /\ id \in LayerIds
  /\ Commit("toggleopacity",
            onUpdateLayers(Cur, historyIndex,
                           handleToggleVisibilityByOpacity(canvasState.textLayers, id)))
  /\ UNCHANGED <<moreVars, showGrid, canvasVars, draggedIndex>>

\* the Hide/Show button of the properties panel, TextProperties.tsx 162-176
ToggleSelectedVisibility ==
  /\ PointerFree
  /\ HasSelectedLayer
  /\ Commit("toggleselected",
            handleUpdateLayer(Cur, historyIndex, [isVisible |-> ~selectedLayer.isVisible]))
  /\ UNCHANGED <<moreVars, showGrid, canvasVars, draggedIndex>>

NextVis ==
  \/ nrec < MaxVisRecs /\ (\E id \in LayerIds : ToggleVisibility(id)) /\ UNCHANGED runVars
  \/ nrec < MaxVisRecs /\ (\E id \in LayerIds : ToggleVisibilityByOpacity(id))
       /\ UNCHANGED runVars
  \/ nrec < MaxVisRecs /\ ToggleSelectedVisibility /\ UNCHANGED runVars
  \/ nrec < MaxVisRecs /\ (\E id \in LayerIds : PanelSelect(id)) /\ UNCHANGED runVars

SpecVis == InitVis /\ [][NextVis]_vars

ToggleOps == {"togglevisible", "toggleopacity", "toggleselected"}

\* the layer list after the toggle that made list is repeated on layer id
ToggledAgain(op, list, id) ==
  IF op = "toggleopacity"
  THEN normalizeZIndexes(handleToggleVisibilityByOpacity(list, id))
  ELSE normalizeZIndexes(handleToggleVisibility(list, id))

C38_StoredInZOrder ==
  \A k \in DOMAIN canvasState.textLayers : canvasState.textLayers[k].zIndex = k - 1

\* a move in the layers panel has exchanged the two layers of the document
C38_MovedByIndex ==
  /\ lastOp = "move"
  /\ lastRecs = 1
  /\ Len(history) >= 2
  /\ Len(canvasState.textLayers) = 2
  /\ Len(PrevEntry.textLayers) = 2
  /\ PrevEntry.textLayers[1].id = canvasState.textLayers[2].id
  /\ PrevEntry.textLayers[2].id = canvasState.textLayers[1].id
  /\ canvasState.textLayers[1].id # canvasState.textLayers[2].id

(***************************************************************************)
(* Progress of the arrow keys, Canvas.tsx 174-231                          *)
(***************************************************************************)
\* the position of the layer after a press of the arrow key with the base step
NudgedTo(layerId, direction) ==
  FindLayer(nudgeLayer(canvasState.textLayers, layerId, direction, NudgeStep), layerId)

\* C40: nudging makes progress: with the grid off and a layer selected,
\* repeated presses of one arrow key with the base step of 10 units move the
\* layer's coordinate on that axis past any given value in that direction, in
\* particular across the center line of the document; the coordinate is never
\* at a value that a further press of that key cannot leave.
C40_NudgeNeverStuck ==
  (~showGrid /\ CanvasKeys /\ HasLayer(canvasState.textLayers, selectedId)) =>
    LET layer == FindLayer(canvasState.textLayers, selectedId)
    IN /\ NudgedTo(selectedId, "right").x # layer.x
       /\ NudgedTo(selectedId, "left").x # layer.x
       /\ NudgedTo(selectedId, "down").y # layer.y
       /\ NudgedTo(selectedId, "up").y # layer.y

====
